---- MODULE Spec2Model ----
(***************************************************************************)
(* Model of the team-knowledge coordinators: IncidentMasterAgent with its  *)
(* IncidentSlaveAgents (incident -> per-team task proposals, task graph,   *)
(* assignments), MasterAgent with its SlaveAgents (query -> selected       *)
(* agents, their answers, the aggregate) and the web handler that stores   *)
(* the last incident.  Texts are real strings; every substring test, case  *)
(* conversion and regular expression of the source is computed on them.    *)
(***************************************************************************)
EXTENDS Integers, Sequences, FiniteSets, TLC

VARIABLES directory, constructed, incident_slave_agents, slave_agents, request, ret,
          current_incident_data

vars == <<directory, constructed, incident_slave_agents, slave_agents, request, ret,
          current_incident_data>>

(* ----------------------------- bounds ---------------------------------- *)
\* number of directory entries in one run
MaxFiles == 2

(* ------------------------- string primitives --------------------------- *)
\* the one-character string at position i
Ch(s, i) == SubSeq(s, i, i)

\* Python's  k in t  on strings
In(k, t) == \E i \in 1..(Len(t) - Len(k) + 1) : SubSeq(t, i, i + Len(k) - 1) = k

\* str.lower() / str.upper() on one character, ASCII letters
ToLower ==
    [A |-> "a", B |-> "b", C |-> "c", D |-> "d", E |-> "e", F |-> "f", G |-> "g",
     H |-> "h", I |-> "i", J |-> "j", K |-> "k", L |-> "l", M |-> "m", N |-> "n",
     O |-> "o", P |-> "p", Q |-> "q", R |-> "r", S |-> "s", T |-> "t", U |-> "u",
     V |-> "v", W |-> "w", X |-> "x", Y |-> "y", Z |-> "z"]
ToUpper ==
    [a |-> "A", b |-> "B", c |-> "C", d |-> "D", e |-> "E", f |-> "F", g |-> "G",
     h |-> "H", i |-> "I", j |-> "J", k |-> "K", l |-> "L", m |-> "M", n |-> "N",
     o |-> "O", p |-> "P", q |-> "Q", r |-> "R", s |-> "S", t |-> "T", u |-> "U",
     v |-> "V", w |-> "W", x |-> "X", y |-> "Y", z |-> "Z"]
DigitChars == {"0", "1", "2", "3", "4", "5", "6", "7", "8", "9"}

IsUpper(c) == c \in DOMAIN ToLower
IsLowerCh(c) == c \in DOMAIN ToUpper
IsDigit(c) == c \in DigitChars
IsLetter(c) == IsUpper(c) \/ IsLowerCh(c)
\* regex \w
IsWordCh(c) == IsLetter(c) \/ IsDigit(c) \/ c = "_"
\* regex \s and str.strip() whitespace
IsSpace(c) == c \in {" ", "\t", "\n"}

LowerCh(c) == IF c \in DOMAIN ToLower THEN ToLower[c] ELSE c
UpperCh(c) == IF c \in DOMAIN ToUpper THEN ToUpper[c] ELSE c

\* character by character, the text split in halves
RECURSIVE lower(_)
lower(s) ==
    IF Len(s) = 0 THEN ""
    ELSE IF Len(s) = 1 THEN LowerCh(s)
    ELSE lower(SubSeq(s, 1, Len(s) \div 2)) \o lower(SubSeq(s, Len(s) \div 2 + 1, Len(s)))

RECURSIVE upper(_)
upper(s) ==
    IF Len(s) = 0 THEN ""
    ELSE IF Len(s) = 1 THEN UpperCh(s)
    ELSE upper(SubSeq(s, 1, Len(s) \div 2)) \o upper(SubSeq(s, Len(s) \div 2 + 1, Len(s)))

\* str.replace(' ', '_')
RECURSIVE replace_space(_)
replace_space(s) ==
    IF Len(s) = 0 THEN ""
    ELSE IF Len(s) = 1 THEN (IF s = " " THEN "_" ELSE s)
    ELSE replace_space(SubSeq(s, 1, Len(s) \div 2))
         \o replace_space(SubSeq(s, Len(s) \div 2 + 1, Len(s)))

\* str.strip()
strip(s) ==
    LET keep == {i \in 1..Len(s) : ~IsSpace(Ch(s, i))}
    IN  IF keep = {} THEN ""
        ELSE SubSeq(s, CHOOSE a \in keep : \A b \in keep : a <= b,
                       CHOOSE a \in keep : \A b \in keep : a >= b)

\* str.split(',')
RECURSIVE split_comma(_)
split_comma(s) ==
    LET commas == {i \in 1..Len(s) : Ch(s, i) = ","}
    IN  IF commas = {} THEN <<s>>
        ELSE LET c == CHOOSE a \in commas : \A b \in commas : a <= b
             IN  <<SubSeq(s, 1, c - 1)>> \o split_comma(SubSeq(s, c + 1, Len(s)))

\* str.endswith
EndsWith(s, suffix) ==
    Len(s) >= Len(suffix) /\ SubSeq(s, Len(s) - Len(suffix) + 1, Len(s)) = suffix

\* str.startswith
StartsWith(s, prefix) == Len(s) >= Len(prefix) /\ SubSeq(s, 1, Len(prefix)) = prefix

Min(S) == CHOOSE a \in S : \A b \in S : a <= b
Max(S) == CHOOSE a \in S : \A b \in S : a >= b

\* index of the last character of the line that holds position i ('.' stops at "\n")
LineEnd(s, i) ==
    LET nl == {j \in i..Len(s) : Ch(s, j) = "\n"}
    IN  IF nl = {} THEN Len(s) ELSE Min(nl) - 1

\* re.search(prefix + r'\s*(.+)', s) anchored at an occurrence p of prefix:
\* the start of group 1, or 0 when the pattern does not match at p.
\* \s* is greedy; when it swallows the rest of the text it gives characters
\* back until '.' (anything but "\n") can match one.
FieldGroupStart(s, p, prefix) ==
    LET q == p + Len(prefix)
        rest == {i \in q..Len(s) : ~IsSpace(Ch(s, i))}
        back == {i \in q..Len(s) : Ch(s, i) # "\n"}
    IN  IF rest # {} THEN Min(rest)
        ELSE IF back # {} THEN Max(back)
        ELSE 0

\* re.search(prefix + r'\s*(.+)', s): [matched, group]
re_search_field(s, prefix) ==
    LET ps == {p \in 1..(Len(s) - Len(prefix) + 1) :
                 /\ SubSeq(s, p, p + Len(prefix) - 1) = prefix
                 /\ FieldGroupStart(s, p, prefix) # 0}
    IN  IF ps = {} THEN [matched |-> FALSE, group |-> ""]
        ELSE LET g == FieldGroupStart(s, Min(ps), prefix)
             IN  [matched |-> TRUE, group |-> SubSeq(s, g, LineEnd(s, g))]

(* ------------------- IncidentSlaveAgent construction ------------------- *)
\* expertise_keywords, in dictionary order
expertise_keywords ==
    << [area |-> "security",
        keywords |-> {"security", "vulnerability", "authentication", "encryption"}],
       [area |-> "frontend",
        keywords |-> {"frontend", "ui", "ux", "dashboard", "mobile", "responsive"}],
       [area |-> "backend",
        keywords |-> {"backend", "api", "database", "server", "infrastructure"}],
       [area |-> "infrastructure",
        keywords |-> {"infrastructure", "deployment", "scaling", "monitoring", "uptime"}],
       [area |-> "database",
        keywords |-> {"database", "migration", "sql", "cache", "redis"}],
       [area |-> "performance",
        keywords |-> {"performance", "optimization", "scaling", "rate limiting"}],
       [area |-> "monitoring",
        keywords |-> {"monitoring", "alerts", "logging", "metrics"}] >>

\* the elements of seq that satisfy Test, in order
RECURSIVE SelectAreas(_, _)
SelectAreas(seq, content_lower) ==
    IF seq = << >> THEN << >>
    ELSE (IF \E keyword \in Head(seq).keywords : In(keyword, content_lower)
          THEN <<Head(seq).area>> ELSE << >>)
         \o SelectAreas(Tail(seq), content_lower)

_identify_expertise(content) == SelectAreas(expertise_keywords, lower(content))

\* team_name, team_lead, members as _load_team_info extracts them
ParsedName(content) ==
    LET m == re_search_field(content, "Team Name:")
    IN  IF m.matched THEN strip(m.group) ELSE ""

ParsedLead(content) ==
    LET m == re_search_field(content, "Team Lead:")
    IN  IF m.matched THEN strip(m.group) ELSE ""

ParsedMembers(content) ==
    LET m == re_search_field(content, "Members:")
    IN  IF m.matched
        THEN LET parts == split_comma(strip(m.group))
             IN  [i \in 1..Len(parts) |-> strip(parts[i])]
        ELSE << >>

IncidentSlaveAgent(content) ==
    [team_name |-> ParsedName(content),
     team_lead |-> ParsedLead(content),
     members   |-> ParsedMembers(content),
     content   |-> content,
     expertise |-> _identify_expertise(content)]

(* --------------------------- team files -------------------------------- *)
FilePool ==
    { [name |-> "sec.txt", readable |-> TRUE,
       content |-> "Team Name: Security Team\nTeam Lead: Ann\nMembers: Bo, Cy\nsecurity breach api database\n"],
      [name |-> "web.txt", readable |-> TRUE,
       content |-> "Team Name: Web Team\nTeam Lead: Dee\nMembers: Eli\nfrontend dashboard TSUNAMI-101 meeting\n  - 2026-01-05: design meeting\n  - 2026-01-07: retro\n  - WEB-3: the page\n  - WEB-4: login issue\n"],
      [name |-> "ops.txt", readable |-> TRUE,
       content |-> "Team Lead: TBD\nMembers: Flo, Gus\nserver uptime\n"],
      [name |-> "docs.txt", readable |-> TRUE,
       content |-> "Team Name: Docs Team\nTeam Lead: TBD\nmanuals\n"],
      [name |-> "web2.txt", readable |-> TRUE,
       content |-> "Team Name: Web Team\nTeam Lead: Ivy\nMembers: Jo\nsql cache jira\n"],
      [name |-> "wave.txt", readable |-> TRUE,
       content |-> "Team Name: Wave Team\nTeam Lead: Kim\nTSUNAMI tsunami Tsunami-7 was tsunamis\n  - 2026-01-06: sea meeting\n  - WAVE-1: the tide issue in port\n"],
      [name |-> "bad.txt", readable |-> FALSE, content |-> ""],
      [name |-> "notes.md", readable |-> TRUE, content |-> "Team Name: Notes\n"] }

\* os.listdir: any order of distinct entries
Listings ==
    UNION { {l \in [1..n -> FilePool] : \A i, j \in 1..n : i # j => l[i] # l[j]} : n \in 0..MaxFiles }

\* the team_info directory: missing, or present with some listing
Directories ==
    {[exists |-> FALSE, files |-> << >>]} \cup {[exists |-> TRUE, files |-> l] : l \in Listings}

\* variant: the first file that cannot be read ends the loading
RECURSIVE LoadIncidentAgents_stop_at_error(_)
LoadIncidentAgents_stop_at_error(files) ==
    IF files = << >> THEN << >>
    ELSE IF EndsWith(Head(files).name, ".txt") /\ ~Head(files).readable THEN << >>
    ELSE (IF EndsWith(Head(files).name, ".txt")
          THEN <<IncidentSlaveAgent(Head(files).content)>> ELSE << >>)
         \o LoadIncidentAgents_stop_at_error(Tail(files))

\* IncidentMasterAgent._initialize_slave_agents: the loop over the listing; a
\* file that cannot be read raises in the agent's constructor and is skipped
RECURSIVE LoadIncidentAgents(_)
LoadIncidentAgents(files) ==
    IF files = << >> THEN << >>
    ELSE (IF EndsWith(Head(files).name, ".txt") /\ Head(files).readable
          THEN <<IncidentSlaveAgent(Head(files).content)>> ELSE << >>)
         \o LoadIncidentAgents(Tail(files))

(* ----------------------------- time ------------------------------------ *)
\* Timestamps are whole hours counted from 2026-01-10T00:00:00;
\* timedelta(hours=h) is the integer h.
TwoDigits(n) == ToString(n \div 10) \o ToString(n % 10)

\* datetime.isoformat() of a timestamp within January 2026
isoformat(t) ==
    "2026-01-" \o TwoDigits(10 + (t \div 24)) \o "T" \o TwoDigits(t % 24) \o ":00:00"

\* the value None of a task's tentative_deadline, outside every timestamp
None == -1000000

(* ------------------- IncidentSlaveAgent.propose_tasks ------------------ *)
\* variant: matching expertise areas earn 10 points once, not 10 each
_calculate_relevance_flat_bonus(agent, incident_description) ==
    LET incident_lower == lower(incident_description)
        has(area) == \E i \in 1..Len(agent.expertise) : agent.expertise[i] = area
    IN  (IF In(lower(agent.team_name), incident_lower) THEN 20 ELSE 0)
      + (IF \E i \in 1..Len(agent.expertise) : In(agent.expertise[i], incident_lower)
         THEN 10 ELSE 0)
      + (IF (In("outage", incident_lower) \/ In("down", incident_lower))
            /\ (has("infrastructure") \/ has("backend")) THEN 15 ELSE 0)
      + (IF (In("security", incident_lower) \/ In("breach", incident_lower))
            /\ has("security") THEN 20 ELSE 0)
      + (IF (In("performance", incident_lower) \/ In("slow", incident_lower))
            /\ (has("performance") \/ has("database")) THEN 15 ELSE 0)

\* variant: the outage bonus is granted without looking at the team's expertise
_calculate_relevance_outage_any(agent, incident_description) ==
    LET incident_lower == lower(incident_description)
        has(area) == \E i \in 1..Len(agent.expertise) : agent.expertise[i] = area
    IN  (IF In(lower(agent.team_name), incident_lower) THEN 20 ELSE 0)
      + Cardinality({i \in 1..Len(agent.expertise) : In(agent.expertise[i], incident_lower)}) * 10
      + (IF In("outage", incident_lower) \/ In("down", incident_lower) THEN 15 ELSE 0)
      + (IF (In("security", incident_lower) \/ In("breach", incident_lower))
            /\ has("security") THEN 20 ELSE 0)
      + (IF (In("performance", incident_lower) \/ In("slow", incident_lower))
            /\ (has("performance") \/ has("database")) THEN 15 ELSE 0)

_calculate_relevance(agent, incident_description) ==
    LET incident_lower == lower(incident_description)
        has(area) == \E i \in 1..Len(agent.expertise) : agent.expertise[i] = area
    IN  (IF In(lower(agent.team_name), incident_lower) THEN 20 ELSE 0)
      + Cardinality({i \in 1..Len(agent.expertise) : In(agent.expertise[i], incident_lower)}) * 10
      + (IF (In("outage", incident_lower) \/ In("down", incident_lower))
            /\ (has("infrastructure") \/ has("backend")) THEN 15 ELSE 0)
      + (IF (In("security", incident_lower) \/ In("breach", incident_lower))
            /\ has("security") THEN 20 ELSE 0)
      + (IF (In("performance", incident_lower) \/ In("slow", incident_lower))
            /\ (has("performance") \/ has("database")) THEN 15 ELSE 0)

HasExpertise(agent, area) == \E i \in 1..Len(agent.expertise) : agent.expertise[i] = area

\* f"{self.team_name.replace(' ', '_')}_<suffix>"
TaskId(agent, suffix) == replace_space(agent.team_name) \o "_" \o suffix

\* self.members[k] if len(self.members) > k else self.team_lead   (k is 0-based)
MemberOrLead(agent, k) ==
    IF Len(agent.members) > k THEN agent.members[k + 1] ELSE agent.team_lead

Task(id, description, importance, hours, due, assignee, deps) ==
    [task_id |-> id, description |-> description, importance |-> importance,
     estimated_hours |-> hours, tentative_deadline |-> due,
     assigned_to |-> assignee, dependencies |-> deps]

\* variant: the patches task does not wait for the audit
_generate_security_tasks_unordered(agent, incident, deadline, base_importance) ==
    LET incident_lower == lower(incident)
    IN  IF In("security", incident_lower) \/ In("breach", incident_lower)
           \/ In("vulnerability", incident_lower)
        THEN << Task(TaskId(agent, "SEC_01"),
                     "Conduct immediate security audit of affected systems",
                     base_importance + 3, 4, deadline - 8, MemberOrLead(agent, 0), << >>),
                Task(TaskId(agent, "SEC_02"),
                     "Review access logs for suspicious activity",
                     base_importance + 2, 3, deadline - 6, MemberOrLead(agent, 1),
                     <<TaskId(agent, "SEC_01")>>),
                Task(TaskId(agent, "SEC_03"),
                     "Implement security patches and hotfixes",
                     base_importance + 4, 6, deadline - 2, agent.team_lead, << >>) >>
        ELSE << >>

_generate_security_tasks(agent, incident, deadline, base_importance) ==
    LET incident_lower == lower(incident)
    IN  IF In("security", incident_lower) \/ In("breach", incident_lower)
           \/ In("vulnerability", incident_lower)
        THEN << Task(TaskId(agent, "SEC_01"),
                     "Conduct immediate security audit of affected systems",
                     base_importance + 3, 4, deadline - 8, MemberOrLead(agent, 0), << >>),
                Task(TaskId(agent, "SEC_02"),
                     "Review access logs for suspicious activity",
                     base_importance + 2, 3, deadline - 6, MemberOrLead(agent, 1),
                     <<TaskId(agent, "SEC_01")>>),
                Task(TaskId(agent, "SEC_03"),
                     "Implement security patches and hotfixes",
                     base_importance + 4, 6, deadline - 2, agent.team_lead,
                     <<TaskId(agent, "SEC_01")>>) >>
        ELSE << >>

_generate_infrastructure_tasks(agent, incident, deadline, base_importance) ==
    LET incident_lower == lower(incident)
    IN  IF In("outage", incident_lower) \/ In("down", incident_lower)
           \/ In("unavailable", incident_lower)
        THEN << Task(TaskId(agent, "INFRA_01"),
                     "Check server health and resource utilization",
                     base_importance + 4, 2, deadline - 10, MemberOrLead(agent, 0), << >>),
                Task(TaskId(agent, "INFRA_02"),
                     "Restart affected services and verify connectivity",
                     base_importance + 5, 3, deadline - 6, agent.team_lead,
                     <<TaskId(agent, "INFRA_01")>>),
                Task(TaskId(agent, "INFRA_03"),
                     "Scale up resources if needed",
                     base_importance + 3, 4, deadline - 4, MemberOrLead(agent, 1),
                     <<TaskId(agent, "INFRA_01")>>) >>
        ELSE << >>

_generate_frontend_tasks(agent, incident, deadline, base_importance) ==
    LET incident_lower == lower(incident)
    IN  IF In("ui", incident_lower) \/ In("frontend", incident_lower)
           \/ In("user", incident_lower)
        THEN << Task(TaskId(agent, "FRONT_01"),
                     "Display user-facing incident notification",
                     base_importance + 2, 2, deadline - 8, MemberOrLead(agent, 0), << >>),
                Task(TaskId(agent, "FRONT_02"),
                     "Implement graceful degradation for affected features",
                     base_importance + 3, 5, deadline - 4, agent.team_lead, << >>) >>
        ELSE << >>

\* variant: the optimisation is due when the analysis is
_generate_database_tasks_same_deadline(agent, incident, deadline, base_importance) ==
    LET incident_lower == lower(incident)
    IN  IF In("database", incident_lower) \/ In("data", incident_lower)
           \/ In("slow", incident_lower)
        THEN << Task(TaskId(agent, "DB_01"),
                     "Analyze database query performance",
                     base_importance + 3, 3, deadline - 8, MemberOrLead(agent, 0), << >>),
                Task(TaskId(agent, "DB_02"),
                     "Optimize slow queries and add indexes",
                     base_importance + 4, 5, deadline - 8, agent.team_lead,
                     <<TaskId(agent, "DB_01")>>) >>
        ELSE << >>

_generate_database_tasks(agent, incident, deadline, base_importance) ==
    LET incident_lower == lower(incident)
    IN  IF In("database", incident_lower) \/ In("data", incident_lower)
           \/ In("slow", incident_lower)
        THEN << Task(TaskId(agent, "DB_01"),
                     "Analyze database query performance",
                     base_importance + 3, 3, deadline - 8, MemberOrLead(agent, 0), << >>),
                Task(TaskId(agent, "DB_02"),
                     "Optimize slow queries and add indexes",
                     base_importance + 4, 5, deadline - 3, agent.team_lead,
                     <<TaskId(agent, "DB_01")>>) >>
        ELSE << >>

\* variant: one importance point per 10 points of relevance
BaseImportance_per_ten(relevance_score) == Min({10, Max({1, relevance_score \div 10})})

\* min(10, max(1, relevance_score // 5))
BaseImportance(relevance_score) ==
    LET q == relevance_score \div 5
        m == IF q > 1 THEN q ELSE 1
    IN  IF m < 10 THEN m ELSE 10

\* tasks.extend(...) of the four expertise blocks, in the order of the code
ExpertiseBlocks(agent, incident, deadline, base_importance) ==
       (IF HasExpertise(agent, "security")
        THEN _generate_security_tasks(agent, incident, deadline, base_importance)
        ELSE << >>)
    \o (IF HasExpertise(agent, "infrastructure") \/ HasExpertise(agent, "backend")
        THEN _generate_infrastructure_tasks(agent, incident, deadline, base_importance)
        ELSE << >>)
    \o (IF HasExpertise(agent, "frontend")
        THEN _generate_frontend_tasks(agent, incident, deadline, base_importance)
        ELSE << >>)
    \o (IF HasExpertise(agent, "database")
        THEN _generate_database_tasks(agent, incident, deadline, base_importance)
        ELSE << >>)

\* if not tasks: the single investigation task
OrInvestigate(agent, tasks, deadline, base_importance) ==
    IF tasks = << >>
    THEN << Task(TaskId(agent, "INVESTIGATE_01"),
                 "Investigate incident impact on " \o agent.team_name \o " systems",
                 base_importance, 3, deadline - 6, agent.team_lead, << >>) >>
    ELSE tasks

ExpertTasks(agent, incident, deadline, base_importance) ==
    OrInvestigate(agent, ExpertiseBlocks(agent, incident, deadline, base_importance),
                  deadline, base_importance)

_generate_expert_tasks(agent, incident, deadline, relevance_score) ==
    ExpertTasks(agent, incident, deadline, BaseImportance(relevance_score))

\* variant: the support task is due after the incident deadline
SupportTask_due_after(agent, deadline) ==
    Task(TaskId(agent, "SUPPORT_01"),
         "Monitor " \o agent.team_name \o " systems for any related issues",
         1, 2, deadline + 4, agent.team_lead, << >>)

\* variant: the support task goes to the first member instead of the lead
SupportTask_first_member(agent, deadline) ==
    Task(TaskId(agent, "SUPPORT_01"),
         "Monitor " \o agent.team_name \o " systems for any related issues",
         1, 2, deadline - 4, MemberOrLead(agent, 0), << >>)

\* the task of the relevance_score == 0 branch
SupportTask(agent, deadline) ==
    Task(TaskId(agent, "SUPPORT_01"),
         "Monitor " \o agent.team_name \o " systems for any related issues",
         1, 2, deadline - 4, agent.team_lead, << >>)

(* --------------------- external enhancement hook ----------------------- *)
\* What the hook does on one call: it is switched off, it fails, or it returns
\* a list of the input's shape: the list itself, the list with a task removed
\* or reordered, or the list extended by a task that has no deadline and the
\* placeholder assignee.
HookModes == {"disabled", "fail", "same", "drop_first", "reverse", "extend"}

Reverse(seq) == [i \in 1..Len(seq) |-> seq[Len(seq) + 1 - i]]

enhance_task_proposals(mode, team_name, expertise, incident, tasks) ==
    CASE mode = "same"       -> tasks
      [] mode = "drop_first" -> IF tasks = << >> THEN tasks ELSE Tail(tasks)
      [] mode = "reverse"    -> Reverse(tasks)
      [] mode = "extend"     ->
            Append(tasks, Task(replace_space(team_name) \o "_AI_01",
                               "Coordinate follow-up with stakeholders",
                               5, 1, None, "TBD", << >>))
      [] OTHER               -> tasks

\* the post-pass of propose_tasks over the list in hand
BackfillDeadline(i, n, deadline) ==
    LET twice == (n - i) * 2
    IN  deadline - (IF twice > 2 THEN twice ELSE 2)

\* variant: the placeholder always goes to the lead
BackfillAssignee_lead_only(agent, i) == agent.team_lead

BackfillAssignee(agent, i) ==
    IF agent.members = << >> THEN agent.team_lead
    ELSE agent.members[(i % Len(agent.members)) + 1]

PostPass(agent, tasks, deadline) ==
    [k \in 1..Len(tasks) |->
        LET i == k - 1
            task == tasks[k]
        IN  [task EXCEPT
               !.tentative_deadline =
                   IF @ = None THEN BackfillDeadline(i, Len(tasks), deadline) ELSE @,
               !.assigned_to =
                   IF @ = "TBD" THEN BackfillAssignee(agent, i) ELSE @]]

\* propose_tasks: what it returns (or that it raised), with the rule-based
\* list it started from and whether the hook was consulted
\* the outcome of one call, recorded with what led to it
Outcome(agent, relevance_score, raised, hook_consulted, rule_based, tasks) ==
    [team_name |-> agent.team_name, relevance_score |-> relevance_score,
     raised |-> raised, hook_consulted |-> hook_consulted,
     rule_based |-> rule_based, tasks |-> tasks]

\* the relevance_score == 0 branch: the support task, returned at once
SupportOutcome(agent, support_task) ==
    Outcome(agent, 0, FALSE, FALSE, <<support_task>>, <<support_task>>)

\* the rest of propose_tasks once the rule-based list is made: the hook, if
\* it is on, and the post-pass
Enhanced(agent, incident_description, deadline, hook, relevance_score, rule_based) ==
    IF hook = "disabled"
    THEN Outcome(agent, relevance_score, FALSE, FALSE, rule_based,
                 PostPass(agent, rule_based, deadline))
    ELSE IF hook = "fail"
    THEN Outcome(agent, relevance_score, TRUE, TRUE, rule_based, << >>)
    ELSE Outcome(agent, relevance_score, FALSE, TRUE, rule_based,
                 PostPass(agent,
                          enhance_task_proposals(hook, agent.team_name, agent.expertise,
                                                 incident_description, rule_based),
                          deadline))

Scored(agent, incident_description, deadline, hook, relevance_score) ==
    IF relevance_score = 0
    THEN SupportOutcome(agent, SupportTask(agent, deadline))
    ELSE Enhanced(agent, incident_description, deadline, hook, relevance_score,
                  _generate_expert_tasks(agent, incident_description, deadline,
                                         relevance_score))

propose_tasks(agent, incident_description, deadline, hook) ==
    Scored(agent, incident_description, deadline, hook,
           _calculate_relevance(agent, incident_description))
(* ------------------ IncidentMasterAgent.handle_incident ---------------- *)
\* Step 1, the loop over self.slave_agents: one propose_tasks outcome per agent
RECURSIVE Proposals(_, _, _, _)
Proposals(agents, incident_description, deadline, hook) ==
    IF agents = << >> THEN << >>
    ELSE <<propose_tasks(Head(agents), incident_description, deadline, hook)>>
         \o Proposals(Tail(agents), incident_description, deadline, hook)

RECURSIVE Flatten(_)
Flatten(seqs) == IF seqs = << >> THEN << >> ELSE Head(seqs) \o Flatten(Tail(seqs))

\* all_tasks: all_tasks.extend(tasks) for every agent in turn
AllTasks(proposals) == Flatten([i \in 1..Len(proposals) |-> proposals[i].tasks])

\* team_tasks[agent.team_name] = tasks on an insertion-ordered dict:
\* a new key is appended, an existing key keeps its place and takes the new value
DictSet(dict, key, value) ==
    IF \E i \in 1..Len(dict) : dict[i].team_name = key
    THEN [i \in 1..Len(dict) |->
            IF dict[i].team_name = key THEN [team_name |-> key, tasks |-> value] ELSE dict[i]]
    ELSE Append(dict, [team_name |-> key, tasks |-> value])

RECURSIVE TeamTasks(_, _)
TeamTasks(proposals, n) ==
    IF n = 0 THEN << >>
    ELSE DictSet(TeamTasks(proposals, n - 1), proposals[n].team_name, proposals[n].tasks)

\* text[:k] + "..." if len(text) > k else text
Label(text, k) == IF Len(text) > k THEN SubSeq(text, 1, k) \o "..." ELSE text

TaskNode(task) ==
    [id |-> task.task_id, label |-> Label(task.description, 40), type |-> "task",
     importance |-> task.importance, team |-> task.assigned_to,
     deadline |-> isoformat(task.tentative_deadline)]

RelevanceEdge(task) ==
    [from |-> task.task_id, to |-> "INCIDENT", weight |-> task.importance,
     label |-> "Priority: " \o ToString(task.importance)]

DependencyEdges(task) ==
    [d \in 1..Len(task.dependencies) |->
        [from |-> task.dependencies[d], to |-> task.task_id, weight |-> 5,
         label |-> "depends on", type |-> "dependency"]]

_build_task_graph(all_tasks, incident_description) ==
    [nodes |-> << [id |-> "INCIDENT", label |-> Label(incident_description, 50),
                   type |-> "incident", importance |-> 10] >>
               \o [k \in 1..Len(all_tasks) |-> TaskNode(all_tasks[k])],
     edges |-> Flatten([k \in 1..Len(all_tasks) |->
                          <<RelevanceEdge(all_tasks[k])>> \o DependencyEdges(all_tasks[k])])]

\* list.sort / sorted with reverse=True on (key, item) pairs: descending by key
\* and stable, each item placed after every earlier item whose key is at
\* least its own
\* variant: an item is placed before the earlier items of equal key
RECURSIVE SortedDescPairs_unstable(_)
SortedDescPairs_unstable(pairs) ==
    IF pairs = << >> THEN << >>
    ELSE LET front == SortedDescPairs_unstable(SubSeq(pairs, 1, Len(pairs) - 1))
             x == pairs[Len(pairs)]
             pos == Cardinality({j \in 1..Len(front) : front[j].key > x.key})
         IN  SubSeq(front, 1, pos) \o <<x>> \o SubSeq(front, pos + 1, Len(front))

RECURSIVE SortedDescPairs(_)
SortedDescPairs(pairs) ==
    IF pairs = << >> THEN << >>
    ELSE LET front == SortedDescPairs(SubSeq(pairs, 1, Len(pairs) - 1))
             x == pairs[Len(pairs)]
             pos == Cardinality({j \in 1..Len(front) : front[j].key >= x.key})
         IN  SubSeq(front, 1, pos) \o <<x>> \o SubSeq(front, pos + 1, Len(front))

\* sorted(tasks, key=lambda x: x["importance"], reverse=True)
SortedByImportance(tasks) ==
    LET sorted_pairs == SortedDescPairs([k \in 1..Len(tasks) |->
                                [key |-> tasks[k].importance, item |-> tasks[k]]])
    IN  [k \in 1..Len(sorted_pairs) |-> sorted_pairs[k].item]

\* assignments.sort(key=lambda x: x["average_importance"], reverse=True)
SortedByAverage(assignments) ==
    LET sorted_pairs == SortedDescPairs([k \in 1..Len(assignments) |->
                                [key |-> assignments[k].average_importance,
                                 item |-> assignments[k]]])
    IN  [k \in 1..Len(sorted_pairs) |-> sorted_pairs[k].item]

\* sum(...) over a list of numbers
RECURSIVE Sum(_)
Sum(seq) == IF seq = << >> THEN 0 ELSE Head(seq) + Sum(Tail(seq))

TotalHours(tasks) == Sum([k \in 1..Len(tasks) |-> tasks[k].estimated_hours])
TotalImportance(tasks) == Sum([k \in 1..Len(tasks) |-> tasks[k].importance])

\* round(total / n, 2) in hundredths. Python rounds the float to the nearest
\* hundredth, ties to even; with n < 16 a tie is an exact binary fraction.
RoundedAverage(total, n) ==
    LET q == (total * 100) \div n
        r == (total * 100) % n
    IN  IF 2 * r < n THEN q
        ELSE IF 2 * r > n THEN q + 1
        ELSE IF q % 2 = 0 THEN q ELSE q + 1

Assignment(entry) ==
    [team_name |-> entry.team_name,
     task_count |-> Len(entry.tasks),
     total_estimated_hours |-> TotalHours(entry.tasks),
     average_importance |-> RoundedAverage(TotalImportance(entry.tasks), Len(entry.tasks)),
     tasks |-> LET sorted_tasks == SortedByImportance(entry.tasks)
               IN  [k \in 1..Len(sorted_tasks) |->
                      [sorted_tasks[k] EXCEPT !.tentative_deadline = isoformat(@)]]]

_create_assignments(team_tasks) ==
    LET kept == SelectSeq(team_tasks, LAMBDA e : e.tasks # << >>)
    IN  SortedByAverage([k \in 1..Len(kept) |-> Assignment(kept[k])])

\* Steps 2 to 4 and the returned dict, from what Step 1 collected
Coordinated(proposals, all_tasks, team_tasks, incident_description, deadline, hook) ==
    [op |-> "handle_incident", raised |-> FALSE, hook |-> hook,
     incident |-> incident_description, deadline_at |-> deadline,
     proposals |-> proposals,
     deadline |-> isoformat(deadline),
     task_graph |-> _build_task_graph(all_tasks, incident_description),
     assignments |-> _create_assignments(team_tasks),
     total_tasks |-> Len(all_tasks),
     teams_involved |-> Len(team_tasks)]

\* a propose_tasks call that raises ends handle_incident at that agent
Collected(proposals, incident_description, deadline, hook) ==
    IF \E i \in 1..Len(proposals) : proposals[i].raised
    THEN [op |-> "handle_incident", raised |-> TRUE, hook |-> hook,
          incident |-> incident_description, deadline_at |-> deadline,
          proposals |-> SubSeq(proposals, 1,
                          Min({i \in 1..Len(proposals) : proposals[i].raised}))]
    ELSE Coordinated(proposals, AllTasks(proposals), TeamTasks(proposals, Len(proposals)),
                     incident_description, deadline, hook)

handle_incident(agents, incident_description, deadline, hook) ==
    Collected(Proposals(agents, incident_description, deadline, hook),
              incident_description, deadline, hook)

(* ----------------------- SlaveAgent construction ----------------------- *)
\* end of the maximal run of characters satisfying a class, starting at i
\* (i - 1 when the character at i is not in the class)
RECURSIVE LetterRunEnd(_, _)
LetterRunEnd(s, i) ==
    IF i <= Len(s) /\ IsLetter(Ch(s, i)) THEN LetterRunEnd(s, i + 1) ELSE i - 1

RECURSIVE UpperRunEnd(_, _)
UpperRunEnd(s, i) ==
    IF i <= Len(s) /\ IsUpper(Ch(s, i)) THEN UpperRunEnd(s, i + 1) ELSE i - 1

RECURSIVE DigitRunEnd(_, _)
DigitRunEnd(s, i) ==
    IF i <= Len(s) /\ IsDigit(Ch(s, i)) THEN DigitRunEnd(s, i + 1) ELSE i - 1

\* regex \b at the gap before position i (1 <= i <= Len(s) + 1)
WordBoundary(s, i) ==
    LET before == i > 1 /\ IsWordCh(Ch(s, i - 1))
        after  == i <= Len(s) /\ IsWordCh(Ch(s, i))
    IN  before # after

\* r'([A-Z]+-\d+)' with re.IGNORECASE matched at i: the end of the match, or 0
IssueIdEndIgnoreCase(s, i) ==
    LET a == LetterRunEnd(s, i)
        b == DigitRunEnd(s, a + 2)
    IN  IF a >= i /\ a + 1 <= Len(s) /\ Ch(s, a + 1) = "-" /\ b >= a + 2 THEN b ELSE 0

\* re.findall(r'([A-Z]+-\d+)', s, re.IGNORECASE), upper-cased
RECURSIVE FindIssueTopics(_, _)
FindIssueTopics(s, i) ==
    LET starts == {j \in i..Len(s) : IssueIdEndIgnoreCase(s, j) # 0}
    IN  IF starts = {} THEN << >>
        ELSE LET e == IssueIdEndIgnoreCase(s, Min(starts))
             IN  <<upper(SubSeq(s, Min(starts), e))>> \o FindIssueTopics(s, e + 1)

\* the alternatives of r'(frontend|backend|infrastructure|security)', in order
DomainWords == <<"frontend", "backend", "infrastructure", "security">>

\* the alternative that matches at i of the lower-cased text, or ""
DomainWordAt(s_lower, i) ==
    LET hits == {k \in 1..Len(DomainWords) :
                    /\ i + Len(DomainWords[k]) - 1 <= Len(s_lower)
                    /\ SubSeq(s_lower, i, i + Len(DomainWords[k]) - 1) = DomainWords[k]}
    IN  IF hits = {} THEN "" ELSE DomainWords[Min(hits)]

\* re.findall(word, s, re.IGNORECASE), upper-cased, for one literal word
RECURSIVE FindLiteral(_, _, _)
FindLiteral(s_lower, word, i) ==
    LET starts == {j \in i..(Len(s_lower) - Len(word) + 1) :
                     SubSeq(s_lower, j, j + Len(word) - 1) = word}
    IN  IF starts = {} THEN << >>
        ELSE <<upper(word)>> \o FindLiteral(s_lower, word, Min(starts) + Len(word))

RECURSIVE FindDomainWords(_, _)
FindDomainWords(s_lower, i) ==
    LET starts == {j \in i..Len(s_lower) : DomainWordAt(s_lower, j) # ""}
    IN  IF starts = {} THEN << >>
        ELSE LET w == DomainWordAt(s_lower, Min(starts))
             IN  <<upper(w)>> \o FindDomainWords(s_lower, Min(starts) + Len(w))

\* capabilities.append(x) unless x is already in the list, for each x in turn
RECURSIVE AppendNew(_, _)
AppendNew(list, items) ==
    IF items = << >> THEN list
    ELSE AppendNew(IF \E k \in 1..Len(list) : list[k] = Head(items)
                   THEN list ELSE Append(list, Head(items)),
                   Tail(items))

_identify_capabilities(team_name, content) ==
    LET content_lower == lower(content)
        matches == FindIssueTopics(content, 1)
                   \o FindLiteral(content_lower, "tsunami", 1)
                   \o FindDomainWords(content_lower, 1)
        topics == [k \in 1..Len(matches) |-> "topic:" \o matches[k]]
    IN  AppendNew(IF team_name # "" THEN <<"team:" \o team_name>> ELSE << >>, topics)
        \o (IF In("jira", content_lower) THEN <<"source:jira">> ELSE << >>)
        \o (IF In("confluence", content_lower) THEN <<"source:confluence">> ELSE << >>)
        \o (IF In("slack", content_lower) THEN <<"source:slack">> ELSE << >>)
        \o (IF In("meeting", content_lower) THEN <<"has:meetings">> ELSE << >>)

SlaveAgent(content) ==
    [team_name    |-> ParsedName(content),
     team_lead    |-> ParsedLead(content),
     members      |-> ParsedMembers(content),
     content      |-> content,
     capabilities |-> _identify_capabilities(ParsedName(content), content)]

\* MasterAgent._initialize_slave_agents
RECURSIVE LoadSlaveAgents(_)
LoadSlaveAgents(files) ==
    IF files = << >> THEN << >>
    ELSE (IF EndsWith(Head(files).name, ".txt") /\ Head(files).readable
          THEN <<SlaveAgent(Head(files).content)>> ELSE << >>)
         \o LoadSlaveAgents(Tail(files))

(* ------------------------ MasterAgent: selection ----------------------- *)
\* re.findall(r'\b([A-Z][A-Z]+)\b', query)
RECURSIVE FindCapitalized(_, _)
FindCapitalized(query, i) ==
    IF i > Len(query) THEN {}
    ELSE LET a == UpperRunEnd(query, i)
         IN  IF a >= i + 1 /\ WordBoundary(query, i) /\ WordBoundary(query, a + 1)
             THEN {SubSeq(query, i, a)} \cup FindCapitalized(query, a + 1)
             ELSE FindCapitalized(query, i + 1)

\* re.findall(r'\b([A-Z]+-\d+)\b', query)
RECURSIVE FindIssueIds(_, _)
FindIssueIds(query, i) ==
    IF i > Len(query) THEN {}
    ELSE LET a == UpperRunEnd(query, i)
             b == DigitRunEnd(query, a + 2)
         IN  IF /\ a >= i /\ WordBoundary(query, i)
                /\ a + 1 <= Len(query) /\ Ch(query, a + 1) = "-"
                /\ b >= a + 2 /\ WordBoundary(query, b + 1)
             THEN {SubSeq(query, i, b)} \cup FindIssueIds(query, b + 1)
             ELSE FindIssueIds(query, i + 1)

important_terms ==
    {"meeting", "issue", "ticket", "jira", "confluence", "slack",
     "frontend", "backend", "infrastructure", "security", "team"}

\* _extract_query_keywords: set(keywords); list(...) puts it in some order
_extract_query_keywords(query) ==
    FindCapitalized(query, 1) \cup FindIssueIds(query, 1)
    \cup {term \in important_terms : In(term, lower(query))}

\* the orders list(set(keywords)) can come out in
Orderings(S) ==
    {f \in [1..Cardinality(S) -> S] : \A i, j \in 1..Cardinality(S) : i # j => f[i] # f[j]}

general_terms == {"all", "every", "total", "overall"}

\* the capabilities one keyword matches, in capability order
MatchesOf(keyword, capabilities) ==
    SelectSeq(capabilities,
              LAMBDA capability : \/ In(upper(keyword), upper(capability))
                                  \/ In(lower(keyword), lower(capability)))

RECURSIVE KeywordMatches(_, _)
KeywordMatches(keywords, capabilities) ==
    IF keywords = << >> THEN << >>
    ELSE MatchesOf(Head(keywords), capabilities) \o KeywordMatches(Tail(keywords), capabilities)

\* variant: only a team that has a name can be named in the query
_score_agent_relevance_named_only(agent, query, keywords) ==
    LET matched == KeywordMatches(keywords, agent.capabilities)
        named == agent.team_name # "" /\ In(lower(agent.team_name), lower(query))
        general == \E term \in general_terms : In(term, lower(query))
    IN  [score |-> 10 * Len(matched) + (IF named THEN 20 ELSE 0) + (IF general THEN 1 ELSE 0),
         matching |-> matched \o (IF named THEN <<"team:" \o agent.team_name>> ELSE << >>)]

\* _score_agent_relevance: [score, matching_capabilities]
_score_agent_relevance(agent, query, keywords) ==
    LET matched == KeywordMatches(keywords, agent.capabilities)
        named == In(lower(agent.team_name), lower(query))
        general == \E term \in general_terms : In(term, lower(query))
    IN  [score |-> 10 * Len(matched) + (IF named THEN 20 ELSE 0) + (IF general THEN 1 ELSE 0),
         matching |-> matched \o (IF named THEN <<"team:" \o agent.team_name>> ELSE << >>)]

\* scored_agents before sorting: (agent, score, matching) for each agent with score > 0;
\* agent is the agent's position in self.slave_agents
RECURSIVE ScoredAgents(_, _, _, _)
ScoredAgents(agents, n, query, keywords) ==
    IF n = 0 THEN << >>
    ELSE LET r == _score_agent_relevance(agents[n], query, keywords)
         IN  ScoredAgents(agents, n - 1, query, keywords)
             \o (IF r.score > 0
                 THEN <<[agent |-> n, score |-> r.score, matching |-> r.matching]>>
                 ELSE << >>)

\* scored_agents.sort(key=lambda x: x[1], reverse=True)
SortedByScore(scored_agents) ==
    LET sorted_pairs == SortedDescPairs([k \in 1..Len(scored_agents) |->
                                [key |-> scored_agents[k].score, item |-> scored_agents[k]]])
    IN  [k \in 1..Len(sorted_pairs) |-> sorted_pairs[k].item]

\* variant: no fallback to all agents when nobody scored
_select_agents_no_fallback(agents, query, keywords) ==
    SortedByScore(ScoredAgents(agents, Len(agents), query, keywords))

_select_agents(agents, query, keywords) ==
    LET scored_agents == SortedByScore(ScoredAgents(agents, Len(agents), query, keywords))
    IN  IF scored_agents = << >>
        THEN [k \in 1..Len(agents) |-> [agent |-> k, score |-> 1, matching |-> << >>]]
        ELSE scored_agents

\* SlaveAgent.answer_query: the engine the query is dispatched to
QueryType(query) ==
    LET query_lower == lower(query)
    IN  IF In("how many times", query_lower) \/ In("count", query_lower) THEN "count"
        ELSE IF In("meeting", query_lower) THEN "meetings"
        ELSE IF In("issue", query_lower) \/ In("ticket", query_lower) \/ In("jira", query_lower)
             THEN "issues"
        ELSE "general"

(* ----------------------- SlaveAgent: count engine ---------------------- *)
\* end of the maximal run of \w characters starting at i (i - 1 when there is none)
RECURSIVE WordRunEnd(_, _)
WordRunEnd(s, i) ==
    IF i <= Len(s) /\ IsWordCh(Ch(s, i)) THEN WordRunEnd(s, i + 1) ELSE i - 1

\* a lower-case literal matched at i under re.IGNORECASE
LiteralAt(s, literal, i) ==
    /\ i + Len(literal) - 1 <= Len(s)
    /\ lower(SubSeq(s, i, i + Len(literal) - 1)) = literal

\* literal + r'.*?(\w+)' matched at i: the start of group 1, or 0.  The lazy
\* .*? stops at the first word character; '.' does not cross a "\n".
LazyGroupStart(s, literal, i) ==
    IF ~LiteralAt(s, literal, i) THEN 0
    ELSE LET from == i + Len(literal)
             words == {q \in from..Len(s) : IsWordCh(Ch(s, q))}
         IN  IF words = {} THEN 0
             ELSE IF \E q \in from..(Min(words) - 1) : Ch(s, q) = "\n" THEN 0
             ELSE Min(words)

\* re.findall(literal + r'.*?(\w+)', s, re.IGNORECASE), as a set
RECURSIVE FindAfterLazy(_, _, _)
FindAfterLazy(s, literal, i) ==
    IF i > Len(s) THEN {}
    ELSE LET g == LazyGroupStart(s, literal, i)
         IN  IF g # 0
             THEN {SubSeq(s, g, WordRunEnd(s, g))}
                  \cup FindAfterLazy(s, literal, WordRunEnd(s, g) + 1)
             ELSE FindAfterLazy(s, literal, i + 1)

\* re.findall(literal + r'(\w+)', s, re.IGNORECASE), as a set
RECURSIVE FindAfterDirect(_, _, _)
FindAfterDirect(s, literal, i) ==
    IF i > Len(s) THEN {}
    ELSE LET g == i + Len(literal)
         IN  IF LiteralAt(s, literal, i) /\ WordRunEnd(s, g) >= g
             THEN {SubSeq(s, g, WordRunEnd(s, g))}
                  \cup FindAfterDirect(s, literal, WordRunEnd(s, g) + 1)
             ELSE FindAfterDirect(s, literal, i + 1)

\* set(terms_to_count)
terms_to_count(query) ==
    FindAfterLazy(query, "how many times", 1)
    \cup FindAfterLazy(query, "count", 1)
    \cup FindAfterDirect(query, "occurrences of ", 1)
    \cup FindCapitalized(query, 1)

\* len(re.findall(r'\b' + re.escape(term) + r'\b', content, re.IGNORECASE))
\* for a term made of word characters
CountWholeWord(term, content) ==
    Cardinality({i \in 1..(Len(content) - Len(term) + 1) :
                   /\ lower(SubSeq(content, i, i + Len(term) - 1)) = lower(term)
                   /\ WordBoundary(content, i)
                   /\ WordBoundary(content, i + Len(term))})

\* sum(results.values())
RECURSIVE SumValues(_, _)
SumValues(results, keys) ==
    IF keys = {} THEN 0
    ELSE LET k == CHOOSE x \in keys : TRUE
         IN  results[k] + SumValues(results, keys \ {k})

\* the dict _count_occurrences returns, from the count of each term
Counted(agent, results) ==
    [team_name |-> agent.team_name, query_type |-> "count",
     results |-> results,
     total_mentions |-> SumValues(results, DOMAIN results)]

_count_occurrences(agent, query) ==
    Counted(agent, [term \in terms_to_count(query) |-> CountWholeWord(term, agent.content)])

(* ---------------- SlaveAgent: meetings and issues engines --------------- *)
\* n digits at i..i+n-1
DigitsAt(s, i, n) ==
    /\ i + n - 1 <= Len(s)
    /\ \A j \in i..(i + n - 1) : IsDigit(Ch(s, j))

\* r'- (\d{4}-\d{2}-\d{2}):' matched at i: the position after the ':', or 0
MeetingHeadEnd(s, i) ==
    IF /\ i + 12 <= Len(s)
       /\ SubSeq(s, i, i + 1) = "- "
       /\ DigitsAt(s, i + 2, 4) /\ Ch(s, i + 6) = "-"
       /\ DigitsAt(s, i + 7, 2) /\ Ch(s, i + 9) = "-"
       /\ DigitsAt(s, i + 10, 2) /\ Ch(s, i + 12) = ":"
    THEN i + 13 ELSE 0

\* r'- ([A-Z]+-\d+):' matched at i: the position after the ':', or 0
IssueHeadEnd(s, i) ==
    IF i + 1 <= Len(s) /\ SubSeq(s, i, i + 1) = "- "
    THEN LET u == UpperRunEnd(s, i + 2)
         IN  IF u >= i + 2 /\ u + 1 <= Len(s) /\ Ch(s, u + 1) = "-"
             THEN LET d == DigitRunEnd(s, u + 2)
                  IN  IF d >= u + 2 /\ d + 1 <= Len(s) /\ Ch(s, d + 1) = ":"
                      THEN d + 2 ELSE 0
             ELSE 0
    ELSE 0

RECURSIVE SpaceRunEnd(_, _)
SpaceRunEnd(s, i) ==
    IF i <= Len(s) /\ IsSpace(Ch(s, i)) THEN SpaceRunEnd(s, i + 1) ELSE i - 1

\* r'\s*(.+?)' from h: where group 2 starts, or 0.  The greedy \s* takes the
\* whole run of whitespace and gives one character back when nothing follows.
BodyStart(s, h) ==
    LET w == SpaceRunEnd(s, h)
    IN  IF w + 1 <= Len(s) THEN w + 1
        ELSE IF w >= h THEN w
        ELSE 0

TextAt(s, p, text) ==
    p + Len(text) - 1 <= Len(s) /\ SubSeq(s, p, p + Len(text) - 1) = text

\* (?=\n  - |\n\n|\Z) at p
MeetingLookahead(s, p) ==
    \/ TextAt(s, p, "\n  - ")
    \/ TextAt(s, p, "\n\n")
    \/ p = Len(s) + 1

\* (?=\n  - |\n\n- [A-Z]+-|\n\n===|\Z) at p
IssueLookahead(s, p) ==
    \/ TextAt(s, p, "\n  - ")
    \/ /\ TextAt(s, p, "\n\n- ")
       /\ LET u == UpperRunEnd(s, p + 4)
          IN  u >= p + 4 /\ u + 1 <= Len(s) /\ Ch(s, u + 1) = "-"
    \/ TextAt(s, p, "\n\n===")
    \/ p = Len(s) + 1

\* re.findall(pattern, content, re.DOTALL) from i: the (group 1, group 2)
\* pairs of the non-overlapping matches, left to right
RECURSIVE FindEntries(_, _, _)
FindEntries(s, kind, i) ==
    LET HeadEnd(j) == IF kind = "meetings" THEN MeetingHeadEnd(s, j) ELSE IssueHeadEnd(s, j)
        starts == {j \in i..Len(s) : HeadEnd(j) # 0 /\ BodyStart(s, HeadEnd(j)) # 0}
    IN  IF starts = {} THEN << >>
        ELSE LET h == HeadEnd(Min(starts))
                 b == BodyStart(s, h)
                 e == Min({x \in b..Len(s) :
                             IF kind = "meetings" THEN MeetingLookahead(s, x + 1)
                             ELSE IssueLookahead(s, x + 1)})
             IN  <<[key |-> SubSeq(s, Min(starts) + 2, h - 2), info |-> SubSeq(s, b, e)]>>
                 \o FindEntries(s, kind, e + 1)

\* re.findall(r'\b\w+\b', query.lower()) from i
RECURSIVE query_terms(_, _)
query_terms(query_lower, i) ==
    IF i > Len(query_lower) THEN << >>
    ELSE LET e == WordRunEnd(query_lower, i)
         IN  IF e < i THEN query_terms(query_lower, i + 1)
             ELSE <<SubSeq(query_lower, i, e)>> \o query_terms(query_lower, e + 1)

\* sum(1 for term in query_terms if term in info.lower())
relevance_score(query, info) ==
    LET terms == query_terms(lower(query), 1)
        info_lower == lower(info)
    IN  Cardinality({k \in 1..Len(terms) : In(terms[k], info_lower)})

\* variant: an entry is kept whether or not it matches the query
Kept_always(query, info) == TRUE

\* the condition under which a scanned entry is appended
Kept(query, info) ==
    relevance_score(query, info) > 0 \/ In("all", lower(query))

RECURSIVE KeptEntries(_, _)
KeptEntries(matches, query) ==
    IF matches = << >> THEN << >>
    ELSE (IF Kept(query, Head(matches).info) THEN <<Head(matches)>> ELSE << >>)
         \o KeptEntries(Tail(matches), query)

\* the dicts appended for the kept entries
MeetingRecords(kept, query) ==
    [k \in 1..Len(kept) |->
        [date |-> kept[k].key, info |-> strip(kept[k].info),
         relevance |-> relevance_score(query, kept[k].info)]]

IssueRecords(kept, query) ==
    [k \in 1..Len(kept) |->
        [issue_id |-> kept[k].key, info |-> strip(kept[k].info),
         relevance |-> relevance_score(query, kept[k].info)]]

MeetingsFound(agent, meetings) ==
    [team_name |-> agent.team_name, query_type |-> "meetings",
     meetings |-> meetings, meeting_count |-> Len(meetings)]

IssuesFound(agent, issues) ==
    [team_name |-> agent.team_name, query_type |-> "issues",
     issues |-> issues, issue_count |-> Len(issues)]

_find_meetings(agent, query) ==
    MeetingsFound(agent,
        MeetingRecords(KeptEntries(FindEntries(agent.content, "meetings", 1), query), query))

_find_issues(agent, query) ==
    IssuesFound(agent,
        IssueRecords(KeptEntries(FindEntries(agent.content, "issues", 1), query), query))

answer_query(agent, query) ==
    CASE QueryType(query) = "count"    -> _count_occurrences(agent, query)
      [] QueryType(query) = "meetings" -> _find_meetings(agent, query)
      [] QueryType(query) = "issues"   -> _find_issues(agent, query)
      [] OTHER -> [team_name |-> agent.team_name, query_type |-> "general"]

(* --------------------- MasterAgent: aggregation ------------------------- *)
\* the entries of every result in turn, each tagged with its result's team
RECURSIVE Tagged(_, _)
Tagged(results, field) ==
    IF results = << >> THEN << >>
    ELSE LET result == Head(results)
         IN  [k \in 1..Len(result[field]) |->
                 result[field][k] @@ [team |-> result.team_name]]
             \o Tagged(Tail(results), field)

\* a date of the shape \d{4}-\d{2}-\d{2} as a number: two such strings
\* compare as these numbers do
DigitValue(c) == CHOOSE d \in 0..9 : ToString(d) = c

RECURSIVE DigitsValue(_)
DigitsValue(ds) ==
    IF ds = << >> THEN 0
    ELSE 10 * DigitsValue(SubSeq(ds, 1, Len(ds) - 1)) + DigitValue(ds[Len(ds)])

DateKey(date) ==
    DigitsValue(SelectSeq([k \in 1..Len(date) |-> Ch(date, k)], IsDigit))

\* variant: the meetings stay in the order the agents returned them
SortedByDate_unsorted(all_meetings) == all_meetings

\* all_meetings.sort(key=lambda x: x['date'], reverse=True)
SortedByDate(all_meetings) ==
    LET sorted_pairs == SortedDescPairs([k \in 1..Len(all_meetings) |->
                            [key |-> DateKey(all_meetings[k].date), item |-> all_meetings[k]]])
    IN  [k \in 1..Len(sorted_pairs) |-> sorted_pairs[k].item]

\* variant: the least relevant issue first
SortedByRelevance_ascending(all_issues) ==
    LET sorted_pairs == SortedDescPairs([k \in 1..Len(all_issues) |->
                            [key |-> 0 - all_issues[k].relevance, item |-> all_issues[k]]])
    IN  [k \in 1..Len(sorted_pairs) |-> sorted_pairs[k].item]

\* all_issues.sort(key=lambda x: x['relevance'], reverse=True)
SortedByRelevance(all_issues) ==
    LET sorted_pairs == SortedDescPairs([k \in 1..Len(all_issues) |->
                            [key |-> all_issues[k].relevance, item |-> all_issues[k]]])
    IN  [k \in 1..Len(sorted_pairs) |-> sorted_pairs[k].item]

\* sum(f(r) for r in results)
RECURSIVE SumOver(_, _)
SumOver(results, field) ==
    IF results = << >> THEN 0
    ELSE Head(results)[field] + SumOver(Tail(results), field)

\* total_counts after the loop over every result's term counts
RECURSIVE TermTotal(_, _, _)
TermTotal(results, term, k) ==
    IF k = 0 THEN 0
    ELSE TermTotal(results, term, k - 1)
         + (IF term \in DOMAIN results[k].results THEN results[k].results[term] ELSE 0)

total_counts(results) ==
    [term \in UNION {DOMAIN results[k].results : k \in 1..Len(results)} |->
        TermTotal(results, term, Len(results))]

\* variant: a team counts as soon as it was queried
teams_with_mentions_all(results) == Len(results)

teams_with_mentions(results) ==
    Cardinality({k \in 1..Len(results) : results[k].total_mentions > 0})

\* {r['team_name']: r for r in results}
results_by_team(results) ==
    [team \in {results[k].team_name : k \in 1..Len(results)} |->
        results[Max({k \in 1..Len(results) : results[k].team_name = team})]]

\* the summary of _aggregate_results, chosen by the first result's query_type
summary(results) ==
    LET type == IF results = << >> THEN "none" ELSE results[1].query_type
    IN  CASE type = "count" ->
               [type |-> "count", total_counts |-> total_counts(results),
                teams_with_mentions |-> teams_with_mentions(results)]
          [] type = "meetings" ->
               [type |-> "meetings",
                total_meetings |-> SumOver(results, "meeting_count"),
                all_meetings |-> SortedByDate(Tagged(results, "meetings"))]
          [] type = "issues" ->
               [type |-> "issues",
                total_issues |-> SumOver(results, "issue_count"),
                all_issues |-> SortedByRelevance(Tagged(results, "issues"))]
          [] OTHER ->
               [type |-> "general", results_by_team |-> results_by_team(results)]

\* the results as the caller sees them: the tagging of _aggregate_results
\* writes into the very entries the individual results hold
individual_results(results) ==
    [k \in 1..Len(results) |->
        CASE results[k].query_type = "meetings" /\ results[1].query_type = "meetings" ->
               [results[k] EXCEPT !.meetings = Tagged(<<results[k]>>, "meetings")]
          [] results[k].query_type = "issues" /\ results[1].query_type = "issues" ->
               [results[k] EXCEPT !.issues = Tagged(<<results[k]>>, "issues")]
          [] OTHER -> results[k]]

\* process_query: select, query every selected agent, aggregate
\* the loop over selected_agents: each answer, with the agent's score and
\* matching capabilities written into it
Answers(agents, selected_agents, query) ==
    [k \in 1..Len(selected_agents) |->
        answer_query(agents[selected_agents[k].agent], query)
        @@ [relevance_score |-> selected_agents[k].score,
            matching_capabilities |-> selected_agents[k].matching]]

_aggregate_results(query, selected_agents, results) ==
    [op |-> "process_query", query |-> query,
     selected_agents |-> selected_agents,
     agents_queried |-> Len(results),
     individual_results |-> individual_results(results),
     summary |-> summary(results)]

Asked(agents, query, selected_agents) ==
    _aggregate_results(query, selected_agents, Answers(agents, selected_agents, query))

process_query(agents, query, keywords) ==
    Asked(agents, query, _select_agents(agents, query, keywords))

(* ------------------------------ inputs --------------------------------- *)
Incidents ==
    { "Security breach caused database outage",
      "Docs Team reports slow site",
      "frontend is down for every user",
      "all quiet",
      "Web Team: UI unavailable",
      "Security breach detected in user authentication module" }

\* incident deadlines, hours after 2026-01-10T00:00:00
Deadlines == {8, 12}

Queries ==
    { "How many times was TSUNAMI mentioned?",
      "What is the Web Team working on?",
      "Show every meeting about TSUNAMI-101",
      "security issue in the backend",
      "How many times did the meeting move?",
      "Any slack thread?",
      "lunch menu",
      "Recall meeting after meeting",
      "Any ticket at all?" }

\* one call of a coordinator: the operation and its arguments
Requests ==
    [op : {"handle_incident"}, incident_description : Incidents,
     deadline : Deadlines, hook : HookModes]
    \cup [op : {"process_query"}, query : Queries]

\* IncidentResponseHandler.current_incident_data = None
NoIncidentData == [none |-> TRUE]

(* --------------------------- state machine ----------------------------- *)
\* Both coordinators are constructed over the same directory; one request is
\* in flight at a time.  The first one is drawn with the initial state, the
\* next one arrives after the result of the previous one was taken.
Init ==
    /\ directory \in Directories
    /\ constructed = directory.exists
    /\ incident_slave_agents =
          IF directory.exists THEN LoadIncidentAgents(directory.files) ELSE << >>
    /\ slave_agents =
          IF directory.exists THEN LoadSlaveAgents(directory.files) ELSE << >>
    /\ request \in Requests
    /\ ret = [op |-> "none"]
    /\ current_incident_data = NoIncidentData

\* variant: handling an incident drops the first loaded team
HandleIncident_drops_agent ==
    /\ constructed
    /\ ret.op = "none"
    /\ request.op = "handle_incident"
    /\ ret' = handle_incident(incident_slave_agents, request.incident_description,
                              request.deadline, request.hook)
    /\ incident_slave_agents' = SubSeq(incident_slave_agents, 2, Len(incident_slave_agents))
    /\ UNCHANGED <<current_incident_data, directory, constructed, slave_agents, request>>

HandleIncident ==
    /\ constructed
    /\ ret.op = "none"
    /\ request.op = "handle_incident"
    /\ ret' = handle_incident(incident_slave_agents, request.incident_description,
                              request.deadline, request.hook)
    /\ UNCHANGED <<current_incident_data, directory, constructed, incident_slave_agents, slave_agents, request>>

ProcessQuery ==
    /\ constructed
    /\ ret.op = "none"
    /\ request.op = "process_query"
    /\ \E keywords \in Orderings(_extract_query_keywords(request.query)) :
          ret' = process_query(slave_agents, request.query, keywords)
    /\ UNCHANGED <<current_incident_data, directory, constructed, incident_slave_agents, slave_agents, request>>

\* the caller takes the result; the coordinators wait for the next call
Return ==
    /\ ret.op # "none"
    /\ request' = [op |-> "idle"]
    /\ ret' = [op |-> "none"]
    /\ UNCHANGED <<current_incident_data, directory, constructed, incident_slave_agents, slave_agents>>

\* the next call arrives
Call ==
    /\ constructed
    /\ request.op = "idle"
    /\ request' \in Requests
    /\ UNCHANGED <<current_incident_data, directory, constructed, incident_slave_agents, slave_agents, ret>>

Next == HandleIncident \/ ProcessQuery \/ Return \/ Call

Spec == Init /\ [][Next]_vars

(* ------------------------------ web server ----------------------------- *)
\* IncidentResponseHandler over one IncidentMasterAgent; HTTPServer handles
\* one request at a time.  Bodies are the data handed to json.dumps.

\* the JSON bodies of POST /api/create_incident, with data.get defaults applied
IncidentReports ==
    { [title |-> "", description |-> "", severity |-> "medium",
       hours_to_deadline |-> 24, affected_services |-> "", impact |-> "",
       reported_by |-> "Unknown", detection_method |-> "", initial_actions |-> ""],
      [title |-> "Login", description |-> "Security breach caused database outage",
       severity |-> "high", hours_to_deadline |-> 8, affected_services |-> "api",
       impact |-> "", reported_by |-> "Ann", detection_method |-> "alert",
       initial_actions |-> ""],
      [title |-> "", description |-> "all quiet", severity |-> "",
       hours_to_deadline |-> 12, affected_services |-> "", impact |-> "users",
       reported_by |-> "Unknown", detection_method |-> "", initial_actions |-> "restart"] }

\* datetime.now() when a request is handled, hours after 2026-01-10T00:00:00
Nows == {0, 4}

\* the states of the enhancement hook a web request can meet
WebHookModes == {"disabled", "fail"}

WebRequests ==
    [op : {"create_incident"}, data : IncidentReports, now : Nows, hook : WebHookModes]
    \cup {[op |-> "get_incident"]}

\* the comprehensive incident description built for the agents
full_description(data) ==
    data.title \o ": " \o data.description
    \o (IF data.affected_services # ""
        THEN " | Affected Services: " \o data.affected_services ELSE "")
    \o (IF data.impact # "" THEN " | Customer Impact: " \o data.impact ELSE "")
    \o (IF data.severity # "" THEN " | Severity: " \o upper(data.severity) ELSE "")
    \o (IF data.initial_actions # ""
        THEN " | Initial Actions: " \o data.initial_actions ELSE "")

\* what handle_incident returned, with the incident report metadata added
incident_data(result, data, now) ==
    [incident |-> result.incident, deadline |-> result.deadline,
     task_graph |-> result.task_graph, assignments |-> result.assignments,
     total_tasks |-> result.total_tasks, teams_involved |-> result.teams_involved,
     incident_report |->
        [title |-> data.title, description |-> data.description,
         severity |-> data.severity, affected_services |-> data.affected_services,
         impact |-> data.impact, reported_by |-> data.reported_by,
         detection_method |-> data.detection_method,
         initial_actions |-> data.initial_actions,
         reported_at |-> isoformat(now)]]

WebInit ==
    /\ directory \in {d \in Directories : d.exists}
    /\ constructed = TRUE
    /\ incident_slave_agents = LoadIncidentAgents(directory.files)
    /\ slave_agents = << >>
    /\ current_incident_data = NoIncidentData
    /\ request \in WebRequests
    /\ ret = [op |-> "none"]

\* the handler from the call of coordinator.handle_incident on: the result is
\* stored and sent, or the exception leaves the handler
Coordinate(result) ==
    IF result.raised
    THEN /\ ret' = [op |-> "create_incident", status |-> 0,
                    coordinator_called |-> TRUE]
         /\ UNCHANGED current_incident_data
    ELSE /\ current_incident_data' = incident_data(result, request.data, request.now)
         /\ ret' = [op |-> "create_incident", status |-> 200,
                    coordinator_called |-> TRUE,
                    body |-> [success |-> TRUE, data |-> current_incident_data']]

\* variant: a rejected request clears the stored incident
handle_create_incident_clears_on_reject ==
    /\ ret.op = "none"
    /\ request.op = "create_incident"
    /\ IF request.data.description = ""
       THEN /\ ret' = [op |-> "create_incident", status |-> 400,
                       coordinator_called |-> FALSE,
                       body |-> [error |-> "Incident description required"]]
            /\ current_incident_data' = NoIncidentData
       ELSE Coordinate(handle_incident(incident_slave_agents,
                                       full_description(request.data),
                                       request.now + request.data.hours_to_deadline,
                                       request.hook))
    /\ UNCHANGED <<directory, constructed, incident_slave_agents, slave_agents, request>>

\* POST /api/create_incident.  status 0: handle_incident raised and the
\* handler was left without a response being sent.
handle_create_incident ==
    /\ ret.op = "none"
    /\ request.op = "create_incident"
    /\ IF request.data.description = ""
       THEN /\ ret' = [op |-> "create_incident", status |-> 400,
                       coordinator_called |-> FALSE,
                       body |-> [error |-> "Incident description required"]]
            /\ UNCHANGED current_incident_data
       ELSE Coordinate(handle_incident(incident_slave_agents,
                                       full_description(request.data),
                                       request.now + request.data.hours_to_deadline,
                                       request.hook))
    /\ UNCHANGED <<directory, constructed, incident_slave_agents, slave_agents, request>>

\* GET /api/incident
serve_incident_data ==
    /\ ret.op = "none"
    /\ request.op = "get_incident"
    /\ ret' = IF current_incident_data = NoIncidentData
              THEN [op |-> "get_incident", status |-> 404,
                    body |-> [error |-> "No incident data"]]
              ELSE [op |-> "get_incident", status |-> 200,
                    body |-> current_incident_data]
    /\ UNCHANGED <<current_incident_data, directory, constructed,
                   incident_slave_agents, slave_agents, request>>

\* the next web request arrives
WebCall ==
    /\ request.op = "idle"
    /\ request' \in WebRequests
    /\ UNCHANGED <<current_incident_data, directory, constructed,
                   incident_slave_agents, slave_agents, ret>>

WebNext == handle_create_incident \/ serve_incident_data \/ Return \/ WebCall

WebSpec == WebInit /\ [][WebNext]_vars

(* ------------------------------ properties ----------------------------- *)
\* handle_incident was called (it may have returned or raised)
Handled == ret.op = "handle_incident"

\* handle_incident returned its result
Returned == ret.op = "handle_incident" /\ ~ret.raised

\* C1: every task returned by propose_tasks has an integer importance in
\* 1..10, and so has every task node and every relevance-edge weight of the
\* task graph.
C1_ImportanceInRange ==
    Handled =>
       /\ \A i \in 1..Len(ret.proposals) : \A k \in 1..Len(ret.proposals[i].tasks) :
             ret.proposals[i].tasks[k].importance \in 1..10
       /\ ~ret.raised =>
             /\ \A n \in 1..Len(ret.task_graph.nodes) :
                   ret.task_graph.nodes[n].type = "task"
                      => ret.task_graph.nodes[n].importance \in 1..10
             /\ \A e \in 1..Len(ret.task_graph.edges) :
                   ret.task_graph.edges[e].to = "INCIDENT"
                      => ret.task_graph.edges[e].weight \in 1..10

\* C2: every dependency of a task returned by propose_tasks is the task_id
\* of a task that stands earlier in the same returned batch.
C2_DependenciesReferEarlier ==
    Handled =>
       \A i \in 1..Len(ret.proposals) :
          LET tasks == ret.proposals[i].tasks
          IN  \A k \in 1..Len(tasks) : \A d \in 1..Len(tasks[k].dependencies) :
                 \E j \in 1..(k - 1) : tasks[j].task_id = tasks[k].dependencies[d]

\* C3: the task graph has exactly one incident node, one task node per
\* proposed task, and for each task node exactly one relevance edge from it
\* to the incident node, whose weight is the task's importance; every other
\* edge is a dependency edge of weight 5.
C3_TaskGraphShape ==
    Returned =>
       LET nodes == ret.task_graph.nodes
           edges == ret.task_graph.edges
           task_nodes == {n \in 1..Len(nodes) : nodes[n].type = "task"}
           relevance == {e \in 1..Len(edges) : "type" \notin DOMAIN edges[e]}
       IN  /\ Cardinality({n \in 1..Len(nodes) : nodes[n].type = "incident"}) = 1
           /\ Cardinality(task_nodes) = ret.total_tasks
           /\ \A n \in task_nodes :
                 LET mine == {e \in relevance : edges[e].from = nodes[n].id}
                 IN  /\ Cardinality(mine) = 1
                     /\ \A e \in mine : /\ edges[e].to = "INCIDENT"
                                        /\ edges[e].weight = nodes[n].importance
           /\ \A e \in relevance : \E n \in task_nodes : edges[e].from = nodes[n].id
           /\ \A e \in (1..Len(edges)) \ relevance :
                 edges[e].type = "dependency" /\ edges[e].weight = 5

C5_EveryTeamRepresented ==
    Handled =>
       /\ ~ret.raised
       /\ Len(ret.proposals) = Len(incident_slave_agents)
       /\ \A i \in 1..Len(ret.proposals) : ret.proposals[i].tasks # << >>
       /\ ret.teams_involved = Len(incident_slave_agents)
       /\ Len(ret.assignments) = Len(incident_slave_agents)

\* C6: a team whose relevance score is 0 returns exactly one task, of
\* importance 1, 2 estimated hours, due 4 hours before the incident
\* deadline, assigned to the team lead, without dependencies and described
\* as monitoring; the enhancement hook is not consulted for it.
C6_ZeroScoreSupportTask ==
    Handled =>
       \A i \in 1..Len(ret.proposals) :
          _calculate_relevance(incident_slave_agents[i], request.incident_description) = 0
             => LET p == ret.proposals[i]
                IN  /\ ~p.raised
                    /\ ~p.hook_consulted
                    /\ Len(p.tasks) = 1
                    /\ p.tasks[1].importance = 1
                    /\ p.tasks[1].estimated_hours = 2
                    /\ p.tasks[1].tentative_deadline = request.deadline - 4
                    /\ p.tasks[1].assigned_to = incident_slave_agents[i].team_lead
                    /\ p.tasks[1].dependencies = << >>
                    /\ StartsWith(p.tasks[1].description, "Monitor ")

\* a team with members scored 0 while the hook was set to fail
C6_Witness ==
    /\ Handled
    /\ request.hook = "fail"
    /\ \E i \in 1..Len(ret.proposals) :
          /\ ret.proposals[i].relevance_score = 0
          /\ incident_slave_agents[i].members # << >>
          /\ Len(ret.proposals[i].tasks) = 1

\* the incident text matches the team's expertise: an expertise area occurs
\* in it, or it names an outage, a security or a performance problem that
\* the team's expertise covers
ExpertiseMatched(agent, incident_description) ==
    LET t == lower(incident_description)
        has(area) == \E a \in 1..Len(agent.expertise) : agent.expertise[a] = area
    IN  \/ \E a \in 1..Len(agent.expertise) : In(agent.expertise[a], t)
        \/ (In("outage", t) \/ In("down", t)) /\ (has("infrastructure") \/ has("backend"))
        \/ (In("security", t) \/ In("breach", t)) /\ has("security")
        \/ (In("performance", t) \/ In("slow", t)) /\ (has("performance") \/ has("database"))

\* the team's batch is a single low-importance monitoring task for the lead
MonitorOnly(i) ==
    LET p == ret.proposals[i]
    IN  /\ Len(p.tasks) = 1
        /\ p.tasks[1].importance = 1
        /\ StartsWith(p.tasks[1].description, "Monitor ")
        /\ p.tasks[1].assigned_to = incident_slave_agents[i].team_lead

\* C7 as stated: a team none of whose expertise matches the incident returns
\* a single low-importance monitoring task assigned to the team lead.
C7_NoExpertiseMatchMonitors ==
    Handled =>
       \A i \in 1..Len(ret.proposals) :
          ~ExpertiseMatched(incident_slave_agents[i], request.incident_description)
             => MonitorOnly(i)

\* C7: a team none of whose expertise matches the incident, and whose name
\* does not occur in the incident text, returns a single low-importance
\* monitoring task assigned to the team lead.
C7_NoMatchNoNameMonitors ==
    Handled =>
       \A i \in 1..Len(ret.proposals) :
          ( /\ ~ExpertiseMatched(incident_slave_agents[i], request.incident_description)
            /\ ~In(lower(incident_slave_agents[i].team_name),
                   lower(request.incident_description)) )
             => MonitorOnly(i)

\* a team that has expertise, none of it matched and its name not mentioned,
\* answered an incident that names an outage
C7_Witness ==
    /\ Handled
    /\ In("down", lower(request.incident_description))
    /\ \E i \in 1..Len(ret.proposals) :
          /\ incident_slave_agents[i].expertise # << >>
          /\ ~ExpertiseMatched(incident_slave_agents[i], request.incident_description)
          /\ ~In(lower(incident_slave_agents[i].team_name),
                 lower(request.incident_description))
          /\ MonitorOnly(i)

\* C8: when the enhancement hook is disabled or fails, propose_tasks returns
\* exactly its rule-based task list.
C8_FallbackIsRuleBased ==
    (Handled /\ request.hook \in {"disabled", "fail"}) =>
       /\ ~ret.raised
       /\ \A i \in 1..Len(ret.proposals) :
             ret.proposals[i].tasks = ret.proposals[i].rule_based

\* position at which a team name was first loaded
FirstLoaded(team_name) ==
    Min({i \in 1..Len(incident_slave_agents) : incident_slave_agents[i].team_name = team_name})

\* the batch kept for a team name: the one proposed last under that name
BatchOf(team_name) ==
    ret.proposals[Max({i \in 1..Len(ret.proposals) :
                          ret.proposals[i].team_name = team_name})].tasks

\* position of a task id in a batch
PositionIn(batch, task_id) == Min({k \in 1..Len(batch) : batch[k].task_id = task_id})

\* C9: assignments are ordered by average importance, highest first, and the
\* tasks of an assignment by importance, highest first; equal keys keep the
\* order in which the teams were loaded and the tasks were proposed.
C9_AssignmentOrdering ==
    Returned =>
       LET a == ret.assignments
       IN  /\ \A k, l \in 1..Len(a) : k < l =>
                 /\ a[k].average_importance >= a[l].average_importance
                 /\ a[k].average_importance = a[l].average_importance
                       => FirstLoaded(a[k].team_name) < FirstLoaded(a[l].team_name)
           /\ \A k \in 1..Len(a) : \A x, y \in 1..Len(a[k].tasks) : x < y =>
                 /\ a[k].tasks[x].importance >= a[k].tasks[y].importance
                 /\ a[k].tasks[x].importance = a[k].tasks[y].importance
                       => PositionIn(BatchOf(a[k].team_name), a[k].tasks[x].task_id)
                          < PositionIn(BatchOf(a[k].team_name), a[k].tasks[y].task_id)

\* two teams tie on average importance and one of them holds tasks that the
\* sort moved from their proposal order
C9_Witness ==
    /\ Returned
    /\ \E k, l \in 1..Len(ret.assignments) :
          /\ k < l
          /\ ret.assignments[k].average_importance = ret.assignments[l].average_importance
          /\ \E x \in 1..Len(ret.assignments[k].tasks) :
                ret.assignments[k].tasks[x].task_id
                   # BatchOf(ret.assignments[k].team_name)[x].task_id

\* C10: _select_agents returns exactly the agents whose score is positive,
\* highest score first; when no agent scores, it returns every agent with
\* score 1 and no matching keywords.  A query against a coordinator with
\* agents therefore consults at least one agent.
C10_SelectionAndFallback ==
    ret.op = "process_query" =>
       LET keywords == CHOOSE k \in Orderings(_extract_query_keywords(request.query)) : TRUE
           score(i) == _score_agent_relevance(slave_agents[i], request.query, keywords).score
           positive == {i \in 1..Len(slave_agents) : score(i) > 0}
           sel == ret.selected_agents
       IN  /\ positive # {} =>
                /\ Len(sel) = Cardinality(positive)
                /\ {sel[k].agent : k \in 1..Len(sel)} = positive
                /\ \A k \in 1..Len(sel) : sel[k].score = score(sel[k].agent)
                /\ \A k, l \in 1..Len(sel) : k < l => sel[k].score >= sel[l].score
           /\ positive = {} =>
                /\ Len(sel) = Len(slave_agents)
                /\ \A k \in 1..Len(sel) :
                      sel[k] = [agent |-> k, score |-> 1, matching |-> << >>]
           /\ ret.agents_queried = Len(sel)
           /\ slave_agents # << >> => ret.agents_queried >= 1

\* no agent of a two-team coordinator scored, and both were consulted
C10_Witness ==
    /\ ret.op = "process_query"
    /\ Len(slave_agents) = 2
    /\ ret.agents_queried = 2
    /\ \A k \in 1..2 : ret.selected_agents[k].score = 1
                       /\ ret.selected_agents[k].matching = << >>

\* the score as the sum of three terms: 10 for each capability that contains,
\* or is contained by, some signal term (each capability once), 20 for a
\* named team, 1 for a generality marker
ScoreCountingCapabilitiesOnce(agent, query) ==
    LET signal == _extract_query_keywords(query)
        hit(capability) ==
            \E term \in signal : \/ In(lower(term), lower(capability))
                                 \/ In(lower(capability), lower(term))
    IN  10 * Cardinality({c \in 1..Len(agent.capabilities) : hit(agent.capabilities[c])})
        + (IF In(lower(agent.team_name), lower(query)) THEN 20 ELSE 0)
        + (IF \E term \in {"all", "every", "total", "overall"} : In(term, lower(query))
           THEN 1 ELSE 0)

\* C11: the relevance score of every profile for the query equals 10 times
\* the number of its capabilities matched by at least one signal term (each
\* capability counted once), plus 20 if the team name occurs in the query,
\* plus 1 if the query contains all, every, total or overall.
C11_ScoreCountsCapabilitiesOnce ==
    ret.op = "process_query" =>
       LET keywords == CHOOSE k \in Orderings(_extract_query_keywords(request.query)) : TRUE
       IN  /\ \A i \in 1..Len(slave_agents) :
                 _score_agent_relevance(slave_agents[i], request.query, keywords).score
                    = ScoreCountingCapabilitiesOnce(slave_agents[i], request.query)
           /\ \A k \in 1..Len(ret.selected_agents) :
                 ret.selected_agents[k].matching # << >>
                    => ret.selected_agents[k].score
                          = ScoreCountingCapabilitiesOnce(
                               slave_agents[ret.selected_agents[k].agent], request.query)

\* the class of a query by first match in the order count, meetings, issues,
\* general; the named external systems are jira, confluence and slack
ClassByPriority(query) ==
    LET q == lower(query)
    IN  IF In("how many times", q) \/ In("count", q) THEN "count"
        ELSE IF In("meeting", q) THEN "meetings"
        ELSE IF \E w \in {"issue", "ticket", "jira", "confluence", "slack"} : In(w, q)
             THEN "issues"
        ELSE "general"

\* C12: every queried agent classifies the query as count, meetings, issues
\* or general by first match in that order, where issues covers the words
\* issue and ticket and each named external system; a query with both
\* "how many times" and "meeting" is a count query.
C12_ClassifiedByPriority ==
    ret.op = "process_query" =>
       \A k \in 1..Len(ret.individual_results) :
          /\ ret.individual_results[k].query_type = ClassByPriority(request.query)
          /\ (In("how many times", lower(request.query)) /\ In("meeting", lower(request.query)))
                => ret.individual_results[k].query_type = "count"

\* C13: for "How many times was TSUNAMI mentioned?" an agent whose text holds
\* the whole word TSUNAMI exactly 3 times (in any case) answers with the
\* result mapping {"TSUNAMI": 3} and total_mentions 3.
C13_TsunamiCountedAlone ==
    (ret.op = "process_query" /\ request.query = "How many times was TSUNAMI mentioned?") =>
       \A k \in 1..Len(ret.individual_results) :
          CountWholeWord("TSUNAMI", slave_agents[ret.selected_agents[k].agent].content) = 3
             => /\ ret.individual_results[k].results = [term \in {"TSUNAMI"} |-> 3]
                /\ ret.individual_results[k].total_mentions = 3

\* an id of the form <team>_<category>_<seq> for the given team: the team
\* name with "_" for spaces, a category in capital letters, a two-digit number
FollowsIdScheme(task_id, team_name) ==
    LET prefix == replace_space(team_name) \o "_"
        n == Len(task_id)
    IN  /\ StartsWith(task_id, prefix)
        /\ n >= Len(prefix) + 4
        /\ Ch(task_id, n - 2) = "_" /\ IsDigit(Ch(task_id, n - 1)) /\ IsDigit(Ch(task_id, n))
        /\ \A c \in (Len(prefix) + 1)..(n - 3) : IsUpper(Ch(task_id, c))

\* C14: within one handle_incident run every task id follows the scheme
\* <team>_<category>_<seq> and no two tasks, over all teams, share an id; so
\* no two nodes of the task graph share an id.
C14_TaskIdsDistinct ==
    Returned =>
       /\ \A i \in 1..Len(ret.proposals) : \A k \in 1..Len(ret.proposals[i].tasks) :
             FollowsIdScheme(ret.proposals[i].tasks[k].task_id, ret.proposals[i].team_name)
       /\ \A i, j \in 1..Len(ret.proposals) :
             \A k \in 1..Len(ret.proposals[i].tasks), l \in 1..Len(ret.proposals[j].tasks) :
                <<i, k>> # <<j, l>>
                   => ret.proposals[i].tasks[k].task_id # ret.proposals[j].tasks[l].task_id
       /\ \A m, n \in 1..Len(ret.task_graph.nodes) :
             m # n => ret.task_graph.nodes[m].id # ret.task_graph.nodes[n].id

\* the .txt files of a listing that can be read, in listing order
ReadableTeamFiles(files) ==
    SelectSeq(files, LAMBDA f : EndsWith(f.name, ".txt") /\ f.readable)

\* C15: a missing team directory makes the construction of the coordinators
\* fail as a whole; a team file that cannot be read excludes only that team,
\* and every other .txt file of the directory is loaded as an agent, in
\* listing order, by both coordinators.
C15_LoadIsolatedPerTeam ==
    /\ constructed = directory.exists
    /\ ~directory.exists =>
          incident_slave_agents = << >> /\ slave_agents = << >> /\ ret.op = "none"
    /\ directory.exists =>
          LET loadable == ReadableTeamFiles(directory.files)
          IN  /\ Len(incident_slave_agents) = Len(loadable)
              /\ Len(slave_agents) = Len(loadable)
              /\ \A i \in 1..Len(loadable) :
                    /\ incident_slave_agents[i].content = loadable[i].content
                    /\ slave_agents[i].content = loadable[i].content

\* an unreadable team file was listed before a readable one, the readable
\* one was loaded, and the coordinator answered a call
C15_Witness ==
    /\ constructed
    /\ Len(directory.files) = 2
    /\ ~directory.files[1].readable
    /\ EndsWith(directory.files[1].name, ".txt")
    /\ Len(incident_slave_agents) = 1
    /\ Len(slave_agents) = 1
    /\ incident_slave_agents[1].content = directory.files[2].content
    /\ ret.op # "none"

\* 1 when the condition holds, else 0
Indicator(condition) == IF condition THEN 1 ELSE 0

\* the incident-relevance score as the sum of its five terms; the incident
\* and the team name are compared in lower case
SumOfRelevanceTerms(agent, incident_description) ==
    LET t == lower(incident_description)
        areas == {agent.expertise[a] : a \in 1..Len(agent.expertise)}
    IN  20 * Indicator(In(lower(agent.team_name), t))
        + 10 * Cardinality({area \in areas : In(area, t)})
        + 15 * Indicator((In("outage", t) \/ In("down", t))
                         /\ {"infrastructure", "backend"} \cap areas # {})
        + 20 * Indicator((In("security", t) \/ In("breach", t)) /\ "security" \in areas)
        + 15 * Indicator((In("performance", t) \/ In("slow", t))
                         /\ {"performance", "database"} \cap areas # {})

\* C16: the relevance score with which a team answers an incident is 20 if
\* the team name occurs in the incident, plus 10 for each expertise area
\* whose name occurs in it, plus 15 for outage/down with infrastructure or
\* backend expertise, plus 20 for security/breach with security expertise,
\* plus 15 for performance/slow with performance or database expertise; it
\* is never negative.
C16_RelevanceIsSumOfTerms ==
    Handled =>
       \A i \in 1..Len(ret.proposals) :
          /\ ret.proposals[i].relevance_score
                = SumOfRelevanceTerms(incident_slave_agents[i], request.incident_description)
          /\ ret.proposals[i].relevance_score >= 0

\* a team scored on two expertise areas and on the outage and the security
\* bonus at once
C16_Witness ==
    /\ Handled
    /\ \E i \in 1..Len(ret.proposals) :
          /\ ret.proposals[i].relevance_score = 55
          /\ Cardinality({a \in 1..Len(incident_slave_agents[i].expertise) :
                            In(incident_slave_agents[i].expertise[a],
                               lower(request.incident_description))}) = 2

\* C17: in every rule-generated batch of a team the incident concerns, the
\* task at index i (counted from 0) is assigned to members[i mod number of
\* members], and to the lead only when the team has no members.
C17_AssigneesRotate ==
    Handled =>
       \A i \in 1..Len(ret.proposals) :
          ret.proposals[i].relevance_score > 0 =>
             LET batch == ret.proposals[i].rule_based
                 members == incident_slave_agents[i].members
             IN  \A k \in 1..Len(batch) :
                    batch[k].assigned_to
                       = IF members = << >> THEN incident_slave_agents[i].team_lead
                         ELSE members[((k - 1) % Len(members)) + 1]

\* the expectations of the security-breach scenario on one batch: at least
\* 3 security-category tasks, each of importance >= base + 2, the patches
\* task depending on the audit task, no deadline after the incident deadline
SecurityScenarioMet(batch, base, deadline) ==
    LET security == {k \in 1..Len(batch) : In("_SEC_", batch[k].task_id)}
    IN  /\ Cardinality(security) >= 3
        /\ \A k \in security : batch[k].importance >= base + 2
        /\ \E a, p \in security :
              /\ In("security audit", lower(batch[a].description))
              /\ In("security patches", lower(batch[p].description))
              /\ \E d \in 1..Len(batch[p].dependencies) :
                    batch[p].dependencies[d] = batch[a].task_id
        /\ \A k \in 1..Len(batch) : batch[k].tentative_deadline <= deadline

\* C18: for a team named "Security Team" whose text mentions "security
\* breach", the incident "Security breach detected in user authentication
\* module" with a deadline 8 hours ahead yields at least 3 security tasks of
\* importance >= baseImportance + 2, with the patches task depending on the
\* audit task and every tentative deadline <= the deadline.
C18_SecurityBreachScenario ==
    ( /\ Handled
      /\ request.incident_description
            = "Security breach detected in user authentication module"
      /\ request.deadline = 8 ) =>
       \A i \in 1..Len(ret.proposals) :
          ( /\ incident_slave_agents[i].team_name = "Security Team"
            /\ In("security breach", lower(incident_slave_agents[i].content)) ) =>
             LET base == Min({10, Max({1, ret.proposals[i].relevance_score \div 5})})
             IN  /\ SecurityScenarioMet(ret.proposals[i].rule_based, base, request.deadline)
                 /\ request.hook = "disabled"
                       => SecurityScenarioMet(ret.proposals[i].tasks, base, request.deadline)

\* the scenario ran with the hook disabled and the Security Team answered
\* with its three security tasks
C18_Witness ==
    /\ Returned
    /\ request.hook = "disabled"
    /\ request.deadline = 8
    /\ request.incident_description = "Security breach detected in user authentication module"
    /\ \E i \in 1..Len(ret.proposals) :
          /\ incident_slave_agents[i].team_name = "Security Team"
          /\ In("security breach", lower(incident_slave_agents[i].content))
          /\ ret.proposals[i].relevance_score = 30
          /\ Cardinality({k \in 1..Len(ret.proposals[i].tasks) :
                            In("_SEC_", ret.proposals[i].tasks[k].task_id)}) = 3

\* C19: no step of any sequence of handle_incident and process_query calls
\* changes the loaded agents: their number and order, and each agent's team
\* name, lead, members, content, expertise and capabilities stay as loaded.
C19_ProfilesImmutable ==
    [][ /\ incident_slave_agents' = incident_slave_agents
        /\ slave_agents' = slave_agents ]_vars

\* a call was answered and its result taken; the coordinators wait for the
\* next call with both teams as they were loaded
C19_Witness ==
    /\ request.op = "idle"
    /\ Len(incident_slave_agents) = 2
    /\ incident_slave_agents = LoadIncidentAgents(directory.files)
    /\ slave_agents = LoadSlaveAgents(directory.files)

\* none of the four rule blocks applies: for each block the team lacks the
\* expertise or the incident lacks the block's keywords
NoRuleBlockFires(agent, incident_description) ==
    LET t == lower(incident_description)
        areas == {agent.expertise[a] : a \in 1..Len(agent.expertise)}
        mentions(words) == \E w \in words : In(w, t)
    IN  /\ ~("security" \in areas /\ mentions({"security", "breach", "vulnerability"}))
        /\ ~({"infrastructure", "backend"} \cap areas # {}
             /\ mentions({"outage", "down", "unavailable"}))
        /\ ~("frontend" \in areas /\ mentions({"ui", "frontend", "user"}))
        /\ ~("database" \in areas /\ mentions({"database", "data", "slow"}))

\* C20: when a team's relevance score is positive and no rule block fires,
\* its rule-based batch is exactly one "Investigate incident impact" task of
\* importance min(10, max(1, score div 5)), 3 estimated hours, due 6 hours
\* before the incident deadline, assigned to the lead, without dependencies.
C20_SingleInvestigateTask ==
    Handled =>
       \A i \in 1..Len(ret.proposals) :
          ( /\ ret.proposals[i].relevance_score > 0
            /\ NoRuleBlockFires(incident_slave_agents[i], request.incident_description) ) =>
             LET batch == ret.proposals[i].rule_based
             IN  /\ Len(batch) = 1
                 /\ StartsWith(batch[1].description, "Investigate incident impact")
                 /\ batch[1].importance
                       = Min({10, Max({1, ret.proposals[i].relevance_score \div 5})})
                 /\ batch[1].estimated_hours = 3
                 /\ batch[1].tentative_deadline = request.deadline - 6
                 /\ batch[1].assigned_to = incident_slave_agents[i].team_lead
                 /\ batch[1].dependencies = << >>

\* a team with expertise and a positive score whose rule blocks all stayed
\* silent proposed the single task with importance 4
C20_Witness ==
    /\ Handled
    /\ \E i \in 1..Len(ret.proposals) :
          /\ incident_slave_agents[i].expertise # << >>
          /\ ret.proposals[i].relevance_score = 20
          /\ NoRuleBlockFires(incident_slave_agents[i], request.incident_description)
          /\ Len(ret.proposals[i].rule_based) = 1
          /\ ret.proposals[i].rule_based[1].importance = 4

\* the list propose_tasks had in hand before its post-pass: the hook's return
\* when the hook was consulted, else the rule-based list
ListInHand(p, agent) ==
    IF p.hook_consulted
    THEN enhance_task_proposals(ret.hook, agent.team_name, agent.expertise_areas,
                                ret.incident, p.rule_based)
    ELSE p.rule_based

PostPassed(i) ==
    /\ ~ret.proposals[i].raised
    /\ ret.proposals[i].relevance_score > 0

\* C21: after the post-pass of propose_tasks, whatever list the hook returned,
\* no returned task has a null tentative_deadline or the assignee "TBD": a task
\* at index i of n without a deadline gets deadline - max(2, (n - i) * 2) hours
\* and a "TBD" assignee becomes members[i mod number of members], or the lead
\* when there are no members
C21_PostPassLeavesNoPlaceholder ==
    Handled =>
        \A i \in 1..Len(ret.proposals) :
            PostPassed(i) =>
                LET p == ret.proposals[i]
                    agent == incident_slave_agents[i]
                    given == ListInHand(p, agent)
                    n == Len(given)
                IN  /\ Len(p.tasks) = n
                    /\ \A k \in 1..n :
                          /\ p.tasks[k].tentative_deadline # None
                          /\ p.tasks[k].assigned_to # "TBD"
                          /\ given[k].tentative_deadline = None =>
                                p.tasks[k].tentative_deadline =
                                    ret.deadline_at - Max({2, (n - (k - 1)) * 2})
                          /\ given[k].assigned_to = "TBD" =>
                                p.tasks[k].assigned_to =
                                    IF agent.members = << >> THEN agent.team_lead
                                    ELSE agent.members[((k - 1) % Len(agent.members)) + 1]

\* C21 as amended: after the post-pass no returned task has a null
\* tentative_deadline; a task at index i of n without a deadline gets
\* deadline - max(2, (n - i) * 2) hours and a "TBD" assignee becomes
\* members[i mod number of members], or the lead when there are no members; a
\* returned task has the assignee "TBD" only when that substitute is "TBD"
C21_PostPassSubstitutes ==
    Handled =>
        \A i \in 1..Len(ret.proposals) :
            PostPassed(i) =>
                LET p == ret.proposals[i]
                    agent == incident_slave_agents[i]
                    given == ListInHand(p, agent)
                    n == Len(given)
                IN  /\ Len(p.tasks) = n
                    /\ \A k \in 1..n :
                          /\ p.tasks[k].tentative_deadline # None
                          /\ p.tasks[k].assigned_to = "TBD" =>
                                IF agent.members = << >> THEN agent.team_lead = "TBD"
                                ELSE agent.members[((k - 1) % Len(agent.members)) + 1] = "TBD"
                          /\ given[k].tentative_deadline = None =>
                                p.tasks[k].tentative_deadline =
                                    ret.deadline_at - Max({2, (n - (k - 1)) * 2})
                          /\ given[k].assigned_to = "TBD" =>
                                p.tasks[k].assigned_to =
                                    IF agent.members = << >> THEN agent.team_lead
                                    ELSE agent.members[((k - 1) % Len(agent.members)) + 1]

\* the hook handed back a task without deadline and with the placeholder
\* assignee, and the post-pass gave it a member of the team
C21_Witness ==
    /\ Handled
    /\ \E i \in 1..Len(ret.proposals) :
          /\ PostPassed(i)
          /\ ret.proposals[i].hook_consulted
          /\ incident_slave_agents[i].members # << >>
          /\ \E k \in 1..Len(ret.proposals[i].tasks) :
                LET given == ListInHand(ret.proposals[i], incident_slave_agents[i])
                IN  /\ given[k].tentative_deadline = None
                    /\ given[k].assigned_to = "TBD"
                    /\ ret.proposals[i].tasks[k].assigned_to # "TBD"
                    /\ ret.proposals[i].tasks[k].tentative_deadline # None

\* process_query returned
Queried == ret.op = "process_query"

\* C22: for a count query, total_counts of the aggregated summary maps every
\* term to the sum of that term's counts over all queried agents,
\* teams_with_mentions is the number of queried agents whose total_mentions is
\* at least 1, and the total_counts values add up to the sum of the agents'
\* total_mentions
C22_CountAggregation ==
    (Queried /\ QueryType(ret.query) = "count" /\ ret.agents_queried >= 1) =>
        LET rs == ret.individual_results
            sm == ret.summary
            CountOf(term, k) ==
                IF term \in DOMAIN rs[k].results THEN rs[k].results[term] ELSE 0
        IN  /\ sm.type = "count"
            /\ DOMAIN sm.total_counts = UNION {DOMAIN rs[k].results : k \in 1..Len(rs)}
            /\ \A term \in DOMAIN sm.total_counts :
                  sm.total_counts[term] = Sum([k \in 1..Len(rs) |-> CountOf(term, k)])
            /\ sm.teams_with_mentions =
                  Cardinality({k \in 1..Len(rs) : rs[k].total_mentions >= 1})
            /\ SumValues(sm.total_counts, DOMAIN sm.total_counts)
                  = Sum([k \in 1..Len(rs) |-> rs[k].total_mentions])

\* two agents answered a count query and some term is counted in both, so
\* that its total is a sum of two positive counts
C22_Witness ==
    /\ Queried
    /\ ret.summary.type = "count"
    /\ \E j, k \in 1..Len(ret.individual_results) :
          /\ j # k
          /\ \E term \in DOMAIN ret.summary.total_counts :
                /\ ret.individual_results[j].results[term] >= 1
                /\ ret.individual_results[k].results[term] >= 1
                /\ ret.summary.total_counts[term] >= 2
    /\ ret.summary.teams_with_mentions = 2

\* how often x occurs in seq
Occurrences(seq, x) == Cardinality({k \in 1..Len(seq) : seq[k] = x})

\* the two lists hold the same entries, each as often
SameEntries(a, b) ==
    /\ Len(a) = Len(b)
    /\ \A k \in 1..Len(a) : Occurrences(a, a[k]) = Occurrences(b, a[k])

\* what the queried agents returned under field, each entry with its team
ReturnedEntries(field) ==
    Flatten([k \in 1..Len(ret.individual_results) |->
               [m \in 1..Len(ret.individual_results[k][field]) |->
                   [ret.individual_results[k][field][m]
                       EXCEPT !.team = ret.individual_results[k].team_name]]])

\* C23: for a meetings query, all_meetings holds exactly the meetings returned
\* by all queried agents, each tagged with its team, sorted by date
\* descending, and total_meetings is the length of all_meetings
C23_MeetingsAggregation ==
    (Queried /\ QueryType(ret.query) = "meetings" /\ ret.agents_queried >= 1) =>
        LET sm == ret.summary
        IN  /\ sm.type = "meetings"
            /\ SameEntries(sm.all_meetings, ReturnedEntries("meetings"))
            /\ \A i, j \in 1..Len(sm.all_meetings) :
                  i < j => DateKey(sm.all_meetings[i].date) >= DateKey(sm.all_meetings[j].date)
            /\ sm.total_meetings = Len(sm.all_meetings)

\* meetings of two teams were merged and the sort moved them
C23_Witness ==
    /\ Queried
    /\ ret.summary.type = "meetings"
    /\ ret.summary.all_meetings # ReturnedEntries("meetings")
    /\ \E i, j \in 1..Len(ret.summary.all_meetings) :
          ret.summary.all_meetings[i].team # ret.summary.all_meetings[j].team

\* C24: for an issues query, all_issues holds exactly the issues returned by
\* all queried agents, each tagged with its team, sorted by local relevance
\* descending, and total_issues is the length of all_issues
C24_IssuesAggregation ==
    (Queried /\ QueryType(ret.query) = "issues" /\ ret.agents_queried >= 1) =>
        LET sm == ret.summary
        IN  /\ sm.type = "issues"
            /\ SameEntries(sm.all_issues, ReturnedEntries("issues"))
            /\ \A i, j \in 1..Len(sm.all_issues) :
                  i < j => sm.all_issues[i].relevance >= sm.all_issues[j].relevance
            /\ sm.total_issues = Len(sm.all_issues)

\* issues of two teams were merged and the sort moved them
C24_Witness ==
    /\ Queried
    /\ ret.summary.type = "issues"
    /\ ret.summary.all_issues # ReturnedEntries("issues")
    /\ \E i, j \in 1..Len(ret.summary.all_issues) :
          ret.summary.all_issues[i].team # ret.summary.all_issues[j].team

\* the query words, lower-cased, that appear in the text
WordsAppearing(query, text) ==
    LET words == query_terms(lower(query), 1)
    IN  {w \in 1..Len(words) : In(words[w], lower(text))}

\* the entries of the scanned list that the rule of C25 keeps, in order
RECURSIVE EntriesToKeep(_, _)
EntriesToKeep(scanned, query) ==
    IF scanned = << >> THEN << >>
    ELSE (IF WordsAppearing(query, Head(scanned).info) # {} \/ In("all", lower(query))
          THEN <<Head(scanned)>> ELSE << >>)
         \o EntriesToKeep(Tail(scanned), query)

\* C25: in the meetings and issues engines a scanned entry is kept if and only
\* if at least one query word appears in the entry's text or the query
\* contains "all"; every kept entry carries relevance equal to the number of
\* query words that appear in its text, and meeting_count / issue_count is the
\* number of kept entries
C25_KeptEntriesAndRelevance ==
    (Queried /\ QueryType(ret.query) \in {"meetings", "issues"}) =>
        \A k \in 1..Len(ret.individual_results) :
            LET result == ret.individual_results[k]
                agent == slave_agents[ret.selected_agents[k].agent]
                scanned == FindEntries(agent.content, result.query_type, 1)
                expected == EntriesToKeep(scanned, ret.query)
                entries == IF result.query_type = "meetings" THEN result.meetings
                           ELSE result.issues
                count == IF result.query_type = "meetings" THEN result.meeting_count
                         ELSE result.issue_count
            IN  /\ Len(entries) = Len(expected)
                /\ \A m \in 1..Len(entries) :
                      /\ entries[m].info = strip(expected[m].info)
                      /\ (IF result.query_type = "meetings" THEN entries[m].date
                          ELSE entries[m].issue_id) = expected[m].key
                      /\ entries[m].relevance
                            = Cardinality(WordsAppearing(ret.query, entries[m].info))
                /\ count = Len(expected)

\* an agent scanned two entries for a query without "all", kept one that has
\* a query word and dropped the other
C25_Witness ==
    /\ Queried
    /\ QueryType(ret.query) = "meetings"
    /\ ~In("all", lower(ret.query))
    /\ \E k \in 1..Len(ret.individual_results) :
          /\ ret.individual_results[k].meeting_count = 1
          /\ ret.individual_results[k].meetings[1].relevance >= 1
          /\ Len(FindEntries(slave_agents[ret.selected_agents[k].agent].content,
                             "meetings", 1)) = 2

\* a query containing "all" kept an entry that has none of its words
C25_WitnessAll ==
    /\ Queried
    /\ QueryType(ret.query) = "issues"
    /\ In("all", lower(ret.query))
    /\ \E k \in 1..Len(ret.individual_results) :
          \E m \in 1..Len(ret.individual_results[k].issues) :
              ret.individual_results[k].issues[m].relevance = 0

\* the tasks proposed under a team name, in proposal order, deadlines as the
\* assignments print them
ProposedBy(team_name) ==
    LET batches == SelectSeq(ret.proposals, LAMBDA p : p.team_name = team_name)
        tasks == Flatten([k \in 1..Len(batches) |-> batches[k].tasks])
    IN  [k \in 1..Len(tasks) |-> [tasks[k] EXCEPT !.tentative_deadline = isoformat(@)]]

IsRollupOf(assignment, tasks) ==
    /\ tasks # << >>
    /\ assignment.task_count = Len(tasks)
    /\ assignment.total_estimated_hours = TotalHours(tasks)
    /\ assignment.average_importance = RoundedAverage(TotalImportance(tasks), Len(tasks))
    /\ SameEntries(assignment.tasks, tasks)

\* C26: each assignment entry is the rollup of exactly that team's proposed
\* tasks: task_count is their number, total_estimated_hours the sum of their
\* estimated_hours, average_importance the mean of their importance rounded to
\* 2 decimals, and the tasks list a permutation of them
C26_AssignmentIsTeamRollup ==
    Returned =>
        \A a \in 1..Len(ret.assignments) :
            IsRollupOf(ret.assignments[a], ProposedBy(ret.assignments[a].team_name))

\* no two loaded agents share a team name
DistinctTeamNames ==
    \A i, j \in 1..Len(incident_slave_agents) :
        incident_slave_agents[i].team_name = incident_slave_agents[j].team_name => i = j

\* the rollup of C26 where every loaded agent has a team name of its own
C26_RollupWhenNamesDistinct ==
    (Returned /\ DistinctTeamNames) =>
        \A a \in 1..Len(ret.assignments) :
            IsRollupOf(ret.assignments[a], ProposedBy(ret.assignments[a].team_name))

\* C27: in every handle_incident result the sum of task_count over all
\* assignments equals total_tasks (every proposed task that is a node of the
\* task graph appears in exactly one team's assignment), for any set of loaded
\* team files, files with missing or equal team names included
C27_TaskCountsAddUp ==
    Returned =>
        /\ Sum([a \in 1..Len(ret.assignments) |-> ret.assignments[a].task_count])
              = ret.total_tasks
        /\ \A k \in 1..Len(ret.proposals) :
              \A t \in 1..Len(ret.proposals[k].tasks) :
                 Cardinality({a \in 1..Len(ret.assignments) :
                                \E m \in 1..Len(ret.assignments[a].tasks) :
                                    ret.assignments[a].tasks[m]
                                      = [ret.proposals[k].tasks[t] EXCEPT
                                            !.tentative_deadline = isoformat(@)]}) = 1

\* C28: in every rule-generated task batch a task's tentative_deadline is
\* strictly later than the tentative_deadline of every task it depends on
C28_DependenciesDueEarlier ==
    Handled =>
        \A i \in 1..Len(ret.proposals) :
            LET batch == ret.proposals[i].rule_based
            IN  \A t, u \in 1..Len(batch) :
                    (\E d \in 1..Len(batch[t].dependencies) :
                        batch[t].dependencies[d] = batch[u].task_id)
                    => batch[t].tentative_deadline > batch[u].tentative_deadline

\* a batch in which the database block fired next to another block with
\* dependencies
C28_Witness ==
    /\ Handled
    /\ \E i \in 1..Len(ret.proposals) :
          LET batch == ret.proposals[i].rule_based
          IN  /\ \E t, u \in 1..Len(batch) :
                    /\ batch[t].dependencies = <<batch[u].task_id>>
                    /\ batch[t].task_id = TaskId(incident_slave_agents[i], "DB_02")
              /\ \E t, u \in 1..Len(batch) :
                    /\ batch[t].dependencies = <<batch[u].task_id>>
                    /\ batch[t].task_id = TaskId(incident_slave_agents[i], "SEC_03")

\* C29: a team whose file has no "Team Name:" line has the empty team name
\* and gets the +20 team-name bonus for every incident and every query: its
\* incident-relevance score is always >= 20, so it never receives the minimal
\* monitor task, and in the general-query coordinator it is always selected,
\* so the all-agents fallback never fires while such a team is loaded
C29_NamelessTeamAlwaysNamed ==
    /\ Handled =>
          \A i \in 1..Len(ret.proposals) :
              incident_slave_agents[i].team_name = "" =>
                  /\ ret.proposals[i].relevance_score >= 20
                  /\ ret.proposals[i].rule_based
                        # <<SupportTask(incident_slave_agents[i], ret.deadline_at)>>
                  /\ \A t \in 1..Len(ret.proposals[i].tasks) :
                        ~In("Monitor", ret.proposals[i].tasks[t].description)
    /\ (Queried /\ \E i \in 1..Len(slave_agents) : slave_agents[i].team_name = "") =>
          /\ \A i \in 1..Len(slave_agents) :
                slave_agents[i].team_name = "" =>
                    \E k \in 1..Len(ret.selected_agents) :
                        /\ ret.selected_agents[k].agent = i
                        /\ ret.selected_agents[k].score >= 20
          /\ \E keywords \in Orderings(_extract_query_keywords(ret.query)) :
                ret.selected_agents
                    = _select_agents_no_fallback(slave_agents, ret.query, keywords)

\* a query that matches nothing is answered by the nameless team alone, with
\* score 20, although another team is loaded
C29_Witness ==
    /\ Queried
    /\ Len(slave_agents) = 2
    /\ Len(ret.selected_agents) = 1
    /\ slave_agents[ret.selected_agents[1].agent].team_name = ""
    /\ ret.selected_agents[1].score = 20

\* an incident that matches nothing gives the nameless team the investigate
\* task
C29_WitnessIncident ==
    /\ Returned
    /\ \E i \in 1..Len(ret.proposals) :
          /\ incident_slave_agents[i].team_name = ""
          /\ ret.proposals[i].relevance_score = 20
          /\ Len(ret.proposals[i].rule_based) = 1
          /\ ret.proposals[i].rule_based[1].task_id = TaskId(incident_slave_agents[i], "INVESTIGATE_01")

\* GET /api/incident answers 404 while nothing is stored and the stored data
\* otherwise
GetAnswersStored ==
    ret.op = "get_incident" =>
        IF current_incident_data = NoIncidentData
        THEN ret.status = 404
        ELSE ret.status = 200 /\ ret.body = current_incident_data

\* one step of the server: the stored data changes only to the result of a
\* create_incident request answered with 200, an accepted request stores its
\* result, and a request rejected with 400 had an empty description, did not
\* reach the coordinator and left the stored data alone
StoredFollowsAccepted ==
    LET handled == ret.op = "none" /\ ret'.op = "create_incident"
        accepted == handled /\ ret'.status = 200
        rejected == handled /\ ret'.status = 400
    IN  /\ accepted =>
              /\ ret'.body.data = incident_data(
                    handle_incident(incident_slave_agents, full_description(request.data),
                                    request.now + request.data.hours_to_deadline,
                                    request.hook),
                    request.data, request.now)
              /\ current_incident_data' = ret'.body.data
        /\ ~accepted => current_incident_data' = current_incident_data
        /\ (handled /\ request.data.description = "") => rejected
        /\ rejected =>
              /\ request.data.description = ""
              /\ ~ret'.coordinator_called
              /\ current_incident_data' = current_incident_data

\* C30: after any sequence of web requests the stored current incident data
\* is the result of the most recent accepted create_incident request, none
\* before the first one: GET /api/incident answers 404 until an incident has
\* been accepted and afterwards returns the stored result, and a
\* create_incident request rejected with 400 for an empty description leaves
\* the stored data unchanged and does not invoke the coordinator
C30_StoredIsLastAccepted ==
    /\ current_incident_data = NoIncidentData
    /\ []GetAnswersStored
    /\ [][StoredFollowsAccepted]_vars

\* a request was rejected with 400 after an incident had been accepted, and
\* the accepted incident is still stored
C30_Witness ==
    /\ ret.op = "create_incident"
    /\ ret.status = 400
    /\ current_incident_data # NoIncidentData
====
